---- MODULE Spec2Model ----
(***************************************************************************)
(* Document store of mcp-context-manager (src/src/storage/file-store.ts):  *)
(* the process-wide lock table and withFileLock, the FileStore operations  *)
(* read / write / append / delete with their file-system steps, run by a   *)
(* single-threaded event loop (one macrotask at a time, then the microtask *)
(* queue drained in FIFO order).                                           *)
(*                                                                         *)
(* Environment: every fs call is one pending I/O of the operation that     *)
(* issued it; pending I/Os of different operations complete in any order.  *)
(* copyFile and writeFile are not atomic (the destination is visible while *)
(* partly written); rename and unlink are.  Injected I/O errors are those  *)
(* of the store's own taxonomy: read, backup copy, write-temp, rename and  *)
(* the unlink of delete, each on a file that exists (a call on a missing   *)
(* file gets ENOENT).  unlink of an existing temp or backup file succeeds. *)
(* The process can crash in any state; files stay on disk.                 *)
(***************************************************************************)
EXTENDS Integers, Sequences, FiniteSets, TLC

(* ------------------------------ bounds --------------------------------- *)
\* operations issued by concurrent callers on two paths (Spec)
MaxOps == 2
\* operations issued by concurrent callers on one path (SpecQ)
MaxQOps == 4
\* operations issued by concurrent callers on one path (SpecLive)
MaxLiveOps == 3
\* operations issued by concurrent callers on two paths, one of which may hang (SpecHang)
MaxHangOps == 3
\* operations issued by a caller that awaits each one (SpecSeq)
MaxSeqOps == 2
\* operations issued by a caller that awaits each one, backups enabled (SpecBak)
MaxBakOps == 2
\* writes issued by a caller that awaits each one, on two files of which one
\* name is a prefix of the other (SpecPfx)
MaxPfxOps == 2
\* operations issued by a caller that awaits each one, cleanup may fail (SpecTmp)
MaxTmpOps == 2
\* injected I/O errors in a run of SpecTmp: the failure of a write and that of
\* its cleanup
MaxTmpFaults == 2
\* operations issued by a caller that awaits each one, with crashes (SpecCrash)
MaxCrashOps == 2
\* clock ticks in a run
MaxTicks == 3
\* injected I/O errors in a run
MaxFaults == 1
\* process crashes in a run
MaxCrashes == 1
\* operations issued by a caller that awaits each one, any document (SpecRT)
MaxRtOps == 2
\* tool calls of a client that awaits each one, memory tools (SpecMem)
MaxMemCalls == 3
\* memory tool calls on one key in flight together (SpecMemConc)
MaxMemConcCalls == 3
\* the tool calls of a client that previews and performs removals
MaxDryCalls == 3
\* the tool calls of a client that finds a damaged tracker.json
MaxJunkCalls == 2
\* tool calls of a client that awaits each one, tracker tools (SpecTrk)
MaxTrkCalls == 4
\* tracker_log calls in flight together (SpecTrkConc)
MaxTrkConcCalls == 3
\* the largest ceiling configured (SpecTrk, SpecCeil)
MaxCeiling == 2
\* operations of callers that nest lock scopes (SpecNest)
MaxNestOps == 4
\* calls of session_init, memory_list and memory_cleanup by a client that
\* awaits each one (SpecSess)
MaxSessCalls == 2
\* calls of the summary tools by a client that awaits each one (SpecSum)
MaxSumCalls == 4
\* calls of checkpoint_save and checkpoint_load by a client that awaits each
\* one (SpecLoad)
MaxLoadCalls == 3
\* calls of checkpoint_save by a client that awaits each one (SpecPrune)
MaxPruneCalls == 3
\* calls of checkpoint_save and checkpoint_delete (SpecCp)
MaxCpCalls == 2
\* tool calls of a client that awaits each one, all the stores (SpecCeil)
MaxCeilCalls == 2

(* --------------------------- program constants ------------------------- *)
\* options.maxBackups ?? 3
DefaultMaxBackups == 3
\* const STORAGE_VERSION = 1
STORAGE_VERSION == 1
\* MCP_TRACKER_MAX_ENTRIES || '1000', MCP_TRACKER_ROTATE_KEEP || '800',
\* MCP_MAX_CHECKPOINTS || '50', MCP_MAX_SUMMARIES || '100'
DefaultCeilings ==
    [MAX_ENTRIES |-> 1000, ROTATE_KEEP |-> 800, MAX_CHECKPOINTS |-> 50, MAX_SUMMARIES |-> 100]
\* Date.now() in the model's epoch: two decimal digits throughout a run, as
\* the 13 digits of a millisecond timestamp are.
ClockStart == 13

(* ------------------------------- paths --------------------------------- *)
BasePath == <<"ctx">>
SubDir == "checkpoints"
Stores == {"root", "sub"}
FileNames == {<<"index.json">>, <<"checkpoints", "index.json">>}

RECURSIVE Normalize(_)
\* path.normalize: drops "." segments
Normalize(p) ==
    IF p = <<>> THEN <<>>
    ELSE IF Head(p) = "." THEN Normalize(Tail(p))
    ELSE <<Head(p)>> \o Normalize(Tail(p))

\* path.join
Join(a, b) == Normalize(a \o b)
Dirname(p) == SubSeq(p, 1, Len(p) - 1)
Basename(p) == p[Len(p)]

\* getSubStore: basePath of the store an operation goes through
\* the sub-directory of a sub-store: "sub" is the sub-store of checkpoints
SubStoreDir(store) == IF store = "sub" THEN SubDir ELSE store
StoreBase(store) == IF store = "root" THEN BasePath ELSE Join(BasePath, <<SubStoreDir(store)>>)
\* faulty variant: a sub-store resolves its file names against the root directory
getFilePathNoBase(store, fname) == Join(BasePath, fname)
getFilePath(store, fname) == Join(StoreBase(store), fname)
\* faulty variant: the lock is keyed by the file's name, not by its full path
LockKeyByName(store, fname) == <<Basename(getFilePath(store, fname))>>

\* the key of the lock table
LockKey(store, fname) == Normalize(getFilePath(store, fname))

\* a directory and all its ancestors (mkdir recursive)
DirsUpTo(d) == {SubSeq(d, 1, k) : k \in 1..Len(d)}

(* --------------------------- values, contents -------------------------- *)
\* A JSON value: its type t, the number or the string (an id) n, and the
\* elements of an array or the members of an object e, in order.  A member is
\* a key (a string id) with one value.
Null == [t |-> "null", n |-> 0, e |-> <<>>]
JTrue == [t |-> "true", n |-> 0, e |-> <<>>]
Num(k) == [t |-> "num", n |-> k, e |-> <<>>]
Str(k) == [t |-> "str", n |-> k, e |-> <<>>]
List(s) == [t |-> "arr", n |-> 0, e |-> s]
Map(s) == [t |-> "obj", n |-> 0, e |-> s]
Member(k, v) == [t |-> "member", n |-> k, e |-> <<v>>]
\* the value of a property that is not there; not a JSON value
Undefined == [t |-> "undefined", n |-> 0, e |-> <<>>]

\* o[k], o[k] = v and delete o[k] on an object
HasKey(o, k) == \E j \in 1..Len(o.e) : o.e[j].n = k
Get(o, k) == IF HasKey(o, k) THEN o.e[CHOOSE j \in 1..Len(o.e) : o.e[j].n = k].e[1] ELSE Undefined
Del(o, k) == [o EXCEPT !.e = SelectSeq(@, LAMBDA m : m.n # k)]
\* !v
Falsy(v) == v.t \in {"undefined", "null"} \/ (v.t = "num" /\ v.n = 0)
\* the members JSON.stringify prints: those whose value is not undefined
Printed(s) == SelectSeq(s, LAMBDA m : m.t # "member" \/ m.e[1] # Undefined)

\* the documents of the callers: an array of numbers, and an object holding one
Arr(s) == List([k \in 1..Len(s) |-> Num(s[k])])
Obj(s) == Map(<<Member(1, Arr(s))>>)
\* the default handed to read
Default == Obj(<<0>>)

\* A text is a sequence of tokens: punctuation, literals, and white space (a
\* line break with its indentation, or the blank after a colon).
Tok(c, n) == [c |-> c, n |-> n]
Nl(depth) == Tok("nl", 2 * depth)

RECURSIVE StringifyAt(_, _)
RECURSIVE Items(_, _)
\* JSON.stringify(v, null, 2) of a value nested depth levels deep
StringifyAt(v, depth) ==
    CASE v.t \in {"null", "true"} -> <<Tok(v.t, 0)>>
      [] v.t \in {"num", "str"} -> <<Tok(v.t, v.n)>>
      [] v.t = "member" ->
            <<Tok("str", v.n), Tok(":", 0), Tok("sp", 1)>> \o StringifyAt(v.e[1], depth)
      [] v.t \in {"arr", "obj"} ->
            LET open == IF v.t = "arr" THEN "[" ELSE "{"
                close == IF v.t = "arr" THEN "]" ELSE "}"
            IN IF Printed(v.e) = <<>> THEN <<Tok(open, 0), Tok(close, 0)>>
               ELSE <<Tok(open, 0)>> \o Items(Printed(v.e), depth + 1)
                       \o <<Nl(depth), Tok(close, 0)>>

\* faulty variant: a comma after the last item too
ItemsTrailingComma(s, depth) ==
    IF s = <<>> THEN <<>>
    ELSE <<Nl(depth)>> \o StringifyAt(Head(s), depth) \o <<Tok(",", 0)>>
            \o Items(Tail(s), depth)

\* the elements or members, one per line, separated by commas
Items(s, depth) ==
    IF s = <<>> THEN <<>>
    ELSE <<Nl(depth)>> \o StringifyAt(Head(s), depth)
            \o (IF Len(s) > 1 THEN <<Tok(",", 0)>> ELSE <<>>)
            \o Items(Tail(s), depth)

\* JSON.stringify(data, null, 2): the complete text of v
Stringify(v) == StringifyAt(v, 0)

\* a proper prefix of a text: what a partial write leaves
Truncated(c) == SubSeq(c, 1, Len(c) - 1)

RECURSIVE SkipWs(_)
SkipWs(ts) == IF ts # <<>> /\ Head(ts).c \in {"nl", "sp"} THEN SkipWs(Tail(ts)) ELSE ts

ParseFail == [ok |-> FALSE, v |-> Null, rest |-> <<>>]
Parsed(v, rest) == [ok |-> TRUE, v |-> v, rest |-> rest]

\* a member parsed after others: a repeated key keeps its place and takes the
\* new value
PutMember(acc, m) ==
    IF \E k \in 1..Len(acc) : acc[k].n = m.n
    THEN [k \in 1..Len(acc) |-> IF acc[k].n = m.n THEN m ELSE acc[k]]
    ELSE Append(acc, m)

\* o[k] = v on an object
Set(o, k, v) == [o EXCEPT !.e = PutMember(@, Member(k, v))]

\* the one element of a singleton: its element expression is computed once
Once(S) == CHOOSE x \in S : TRUE

RECURSIVE ParseValue(_)
RECURSIVE ParseItems(_, _, _)
\* JSON.parse, one value from the head of ts: the value and the tokens left
ParseValue(ts0) ==
    LET ts == SkipWs(ts0) IN
    IF ts = <<>> THEN ParseFail
    ELSE LET h == Head(ts) IN
         CASE h.c = "null" -> Parsed(Null, Tail(ts))
           [] h.c = "true" -> Parsed(JTrue, Tail(ts))
           [] h.c = "num" -> Parsed(Num(h.n), Tail(ts))
           [] h.c = "str" -> Parsed(Str(h.n), Tail(ts))
           [] h.c = "[" -> ParseItems(Tail(ts), <<>>, "arr")
           [] h.c = "{" -> ParseItems(Tail(ts), <<>>, "obj")
           [] OTHER -> ParseFail

\* "key": value
ParseMember(ts) ==
    IF ts = <<>> \/ Head(ts).c # "str" THEN ParseFail
    ELSE LET r == SkipWs(Tail(ts)) IN
         IF r = <<>> \/ Head(r).c # ":" THEN ParseFail
         ELSE Once({IF val.ok THEN Parsed(Member(Head(ts).n, val.v), val.rest)
                    ELSE ParseFail : val \in {ParseValue(Tail(r))}})

\* the rest of an array or object after its opening bracket or after a comma,
\* acc being the items parsed so far
ParseItems(ts0, acc, kind) ==
    LET ts == SkipWs(ts0)
        close == IF kind = "arr" THEN "]" ELSE "}"
    IN IF ts = <<>> THEN ParseFail
       ELSE IF Head(ts).c = close
       THEN IF acc = <<>> THEN Parsed([t |-> kind, n |-> 0, e |-> acc], Tail(ts)) ELSE ParseFail
       ELSE Once({LET r == SkipWs(it.rest)
                      items == IF kind = "arr" THEN Append(acc, it.v) ELSE PutMember(acc, it.v)
                  IN IF ~it.ok \/ r = <<>> THEN ParseFail
                     ELSE IF Head(r).c = "," THEN ParseItems(Tail(r), items, kind)
                     ELSE IF Head(r).c = close
                     THEN Parsed([t |-> kind, n |-> 0, e |-> items], Tail(r))
                     ELSE ParseFail
                  : it \in {IF kind = "arr" THEN ParseValue(ts) ELSE ParseMember(ts)}})

\* JSON.parse(content): one value and nothing but white space after it
JsonParse(c) ==
    Once({IF r.ok /\ SkipWs(r.rest) = <<>> THEN r ELSE ParseFail : r \in {ParseValue(c)}})

Parses(c) == JsonParse(c).ok
Parse(c) == JsonParse(c).v
\* the content of a damaged file: JSON.parse throws on it
Junk == <<>>

(* ------------------------------ file names ----------------------------- *)
\* target p, backup `${p}.${ts}.bak`, temp `${p}.tmp.${ts}`
Target(p) == [path |-> p, ext |-> "", ts |-> 0]
BackupPath(p, ts) == [path |-> p, ext |-> "bak", ts |-> ts]
\* faulty variant: the new content is written straight to the target
TempPathIsTarget(p, ts) == Target(p)
TempPath(p, ts) == [path |-> p, ext |-> "tmp", ts |-> ts]

RECURSIVE Digits(_)
\* the decimal digits of n, as template literals print a number
Digits(n) == IF n < 10 THEN <<n>> ELSE Digits(n \div 10) \o <<n % 10>>

RECURSIVE LexLess(_, _)
\* s sorts before t as strings (Array.prototype.sort default order)
LexLess(s, t) ==
    IF t = <<>> THEN FALSE
    ELSE IF s = <<>> THEN TRUE
    ELSE IF Head(s) # Head(t) THEN Head(s) < Head(t)
    ELSE LexLess(Tail(s), Tail(t))

\* the characters of file names, in the order of their codes
Chars == "-.0123456789_abcdefghijklmnopqrstuvwxyz"
Code(c) == CHOOSE k \in 1..Len(Chars) : SubSeq(Chars, k, k) = c
\* the character codes of a string
Codes(s) == [k \in 1..Len(s) |-> Code(SubSeq(s, k, k))]

\* `${filePath}.${timestamp}.bak`, the name readdir returns
BackupName(n) == n.path[Len(n.path)] \o "." \o ToString(n.ts) \o ".bak"

\* order of two backup names of the same directory: backups of one file differ
\* in their timestamps only
NameLess(a, b) ==
    IF a.path = b.path THEN LexLess(Digits(a.ts), Digits(b.ts))
    ELSE LexLess(Codes(BackupName(a)), Codes(BackupName(b)))

VARIABLES
    files,        \* the disk: file name -> content
    dirs,         \* existing directories
    fileLocks,    \* the lock table: normalized path -> operation owning the promise
    ops,          \* the operations issued so far, in call order
    microtasks,   \* the microtask queue
    now,          \* Date.now()
    enableBackup, \* option of the store
    faults,       \* I/O errors injected so far
    crashes,      \* crashes so far
    tools,        \* the tool calls made so far, in call order
    cfg           \* the retention ceilings read from the environment at start

vars == <<files, dirs, fileLocks, ops, microtasks, now, enableBackup, faults, crashes,
          tools, cfg>>

(* ------------------------------ helpers -------------------------------- *)
Put(f, k, v) == [x \in DOMAIN f \cup {k} |-> IF x = k THEN v ELSE f[x]]
Drop(f, k) == [x \in DOMAIN f \ {k} |-> f[x]]
Has(f, k) == k \in DOMAIN f

Ids == 1..Len(ops)
Live(i) == ops[i].pc \notin {"done", "failed", "crashed"}
Ended(i) == ~Live(i)
Waiting(i) == ops[i].pc = "wait"
InCS(i) == Live(i) /\ ~Waiting(i)

NoRes == [st |-> "none", v |-> Default]
Absent == [has |-> FALSE, c |-> Junk]
NoPre == [has |-> FALSE, c |-> Junk, baks |-> {}]

\* the arguments of the id-th call of a run: read: the default; write: the
\* id-th document; append: the item id
ArgOf(kind, id) ==
    IF kind = "read" THEN Default ELSE IF kind = "append" THEN Num(id) ELSE Obj(<<id>>)

\* The record of a call: its argument v (read: the default; write: the
\* document; append: the item, kept as a one-element array), the locals of the
\* operation (data: the value to serialize, ts and tmp: the two Date.now()
\* readings, del: the backups left to unlink), the reactions of its lock
\* promise (waitq), its result, and two history fields: pre, the target and the
\* names of its backups as the operation found them when it got the lock, and
\* ioErr, whether the readFile of an append failed with an I/O error.
NewOp(kind, store, fname, v) ==
    [kind |-> kind, store |-> store, fname |-> fname,
     path |-> getFilePath(store, fname),
     arg |-> IF kind = "append" THEN List(<<v>>) ELSE v,
     data |-> IF kind = "write" THEN v ELSE Default,
     pc |-> "new", ts |-> 0, tmp |-> 0, del |-> <<>>,
     waitq |-> <<>>, res |-> NoRes, pre |-> NoPre, ioErr |-> FALSE, inner |-> 0]

\* first fs call of the wrapped function, per operation
FirstPc(kind) ==
    CASE kind = "read" -> "readFile"
      [] kind = "write" -> "ensureDir"
      [] kind = "append" -> "appRead"
      [] kind = "delete" -> "unlink"
      [] kind = "nested" -> "inner"


\* the target p on a disk d: its content, or absent
On(d, p) == IF Has(d, Target(p)) THEN [has |-> TRUE, c |-> d[Target(p)]] ELSE Absent
BackupsOf(d, p) == {n \in DOMAIN d : n.ext = "bak" /\ n.path = p}
Snapshot(p) == [has |-> On(files, p).has, c |-> On(files, p).c, baks |-> BackupsOf(files, p)]

(* ---------------------------- withFileLock ----------------------------- *)
\* the loop condition `while (fileLocks.has(normalizedPath))`
MustWait(locks, key) == Has(locks, key)

\* faulty variant: `if` for `while`, a resumed waiter takes the lock unchecked
withFileLockIf(o, locks, i) ==
    LET key == LockKey(o[i].store, o[i].fname) IN
    IF o[i].pc = "new" /\ MustWait(locks, key)
    THEN [ops |-> [o EXCEPT ![locks[key]].waitq = Append(@, i), ![i].pc = "wait"],
          locks |-> locks]
    ELSE [ops |-> [o EXCEPT ![i].pc = FirstPc(o[i].kind), ![i].pre = Snapshot(o[i].path)],
          locks |-> Put(locks, key, i)]

\* faulty variant: read is not guarded by the lock
withFileLockNotRead(o, locks, i) ==
    LET key == LockKey(o[i].store, o[i].fname) IN
    IF o[i].kind # "read" /\ MustWait(locks, key)
    THEN [ops |-> [o EXCEPT ![locks[key]].waitq = Append(@, i), ![i].pc = "wait"],
          locks |-> locks]
    ELSE [ops |-> [o EXCEPT ![i].pc = FirstPc(o[i].kind), ![i].pre = Snapshot(o[i].path)],
          locks |-> IF o[i].kind = "read" THEN locks ELSE Put(locks, key, i)]

\* withFileLock from its entry, or from the resumption of its await, up to the
\* first await it reaches: either `await fileLocks.get(..)` (operation i joins
\* the reactions of the holder's promise) or the first fs call of fn().
\* o: the operations, locks: the lock table; the result is both, updated.
withFileLock(o, locks, i) ==
    LET key == LockKey(o[i].store, o[i].fname) IN
    IF MustWait(locks, key)
    THEN [ops |-> [o EXCEPT ![locks[key]].waitq = Append(@, i), ![i].pc = "wait"],
          locks |-> locks]
    ELSE [ops |-> [o EXCEPT ![i].pc = FirstPc(o[i].kind), ![i].pre = Snapshot(o[i].path)],
          locks |-> Put(locks, key, i)]

\* faulty variant: the caller is resumed before the waiters (the lock released by a
\* handler chained on the promise the caller awaits)
ReleaseJobsCallerFirst(i) ==
    <<[t |-> "cont", op |-> i]>>
        \o [k \in 1..Len(ops[i].waitq) |-> [t |-> "wake", op |-> ops[i].waitq[k]]]

\* the jobs queued by the finally block: releaseLock() resolves the lock
\* promise (its reactions run in the order the waiters awaited it), then the
\* async function returns and its caller is resumed.
ReleaseJobs(i) ==
    [k \in 1..Len(ops[i].waitq) |-> [t |-> "wake", op |-> ops[i].waitq[k]]]
        \o <<[t |-> "cont", op |-> i]>>

\* the record of an operation that is over: its locals are gone
Retired(o, pc, res) ==
    [o EXCEPT !.pc = pc, !.res = res, !.waitq = <<>>,
              !.data = Default, !.ts = 0, !.tmp = 0, !.del = <<>>, !.pre = NoPre]

\* faulty variant: the lock is released on the normal return only (no finally)
FinishNoFinally(i, pc, res) ==
    IF pc = "failed"
    THEN /\ ops' = [ops EXCEPT ![i].pc = pc, ![i].res = res]
         /\ microtasks' = microtasks \o <<[t |-> "cont", op |-> i]>>
         /\ UNCHANGED fileLocks
    ELSE /\ ops' = [ops EXCEPT ![i] = Retired(@, pc, res)]
         /\ fileLocks' = Drop(fileLocks, LockKey(ops[i].store, ops[i].fname))
         /\ microtasks' = microtasks \o ReleaseJobs(i)

\* fn() has settled: the finally block and the return of withFileLock.
Finish(i, pc, res) ==
    /\ ops' = [ops EXCEPT ![i] = Retired(@, pc, res)]
    /\ fileLocks' = Drop(fileLocks, LockKey(ops[i].store, ops[i].fname))
    /\ microtasks' = microtasks \o ReleaseJobs(i)

Ok(v) == [st |-> "ok", v |-> v]
Err == [st |-> "error", v |-> Default]

\* an I/O completion is a macrotask: it runs when the microtask queue is empty
IoReady(i, pc) == i \in Ids /\ ops[i].pc = pc /\ microtasks = <<>>
CanFail == faults < MaxFaults

(* ------------------------------- callers ------------------------------- *)
\* a caller's synchronous code: from a macrotask (empty microtask queue) or
\* from the continuation of an earlier operation it awaited
CallerRuns == IF microtasks = <<>> THEN TRUE ELSE Head(microtasks).t = "cont"

\* store.<kind>(fname, v) through the root store or getStore().getSubStore(SubDir)
IssueArg(kind, store, fname, v) ==
    LET i == Len(ops) + 1
        r == withFileLock(Append(ops, NewOp(kind, store, fname, v)), fileLocks, i)
    IN /\ dirs' = dirs \cup DirsUpTo(StoreBase(store))
       /\ ops' = r.ops
       /\ fileLocks' = r.locks
       /\ UNCHANGED <<files, microtasks, now, enableBackup, faults, crashes, tools, cfg>>

Issue(kind, store, fname) == IssueArg(kind, store, fname, ArgOf(kind, Len(ops) + 1))

Call(kind, store, fname) ==
    /\ Len(ops) < MaxOps
    /\ CallerRuns
    /\ Issue(kind, store, fname)

\* the continuation of a caller's await returns to the event loop
ContDone ==
    /\ microtasks # <<>> /\ Head(microtasks).t = "cont"
    /\ microtasks' = Tail(microtasks)
    /\ UNCHANGED <<files, dirs, fileLocks, ops, now, enableBackup, faults, crashes, tools, cfg>>

\* a waiter resumes after `await fileLocks.get(normalizedPath)`
Wake ==
    /\ microtasks # <<>> /\ Head(microtasks).t = "wake"
    /\ microtasks' = Tail(microtasks)
    /\ LET r == withFileLock(ops, fileLocks, Head(microtasks).op)
       IN ops' = r.ops /\ fileLocks' = r.locks
    /\ UNCHANGED <<files, dirs, now, enableBackup, faults, crashes, tools, cfg>>

(* -------------------------------- read --------------------------------- *)
\* faulty variant: a missing file is an error like any other
ReadFileDoneNoDefault(i) ==
    /\ IoReady(i, "readFile")
    /\ LET t == Target(ops[i].path) IN
       IF Has(files, t) /\ Parses(files[t]) THEN Finish(i, "done", Ok(Parse(files[t])))
       ELSE Finish(i, "failed", Err)
    /\ UNCHANGED <<files, dirs, now, enableBackup, faults, crashes, tools, cfg>>

\* faulty variant: a file that does not parse is read as the default
ReadFileDoneCorruptDefault(i) ==
    /\ IoReady(i, "readFile")
    /\ LET t == Target(ops[i].path) IN
       IF Has(files, t) /\ Parses(files[t]) THEN Finish(i, "done", Ok(Parse(files[t])))
       ELSE Finish(i, "done", Ok(ops[i].arg))
    /\ UNCHANGED <<files, dirs, now, enableBackup, faults, crashes, tools, cfg>>

ReadFileDone(i) ==
    /\ IoReady(i, "readFile")
    /\ LET t == Target(ops[i].path) IN
       IF ~Has(files, t) THEN Finish(i, "done", Ok(ops[i].arg))
       ELSE IF Parses(files[t]) THEN Finish(i, "done", Ok(Parse(files[t])))
       ELSE Finish(i, "failed", Err)
    /\ UNCHANGED <<files, dirs, now, enableBackup, faults, crashes, tools, cfg>>

\* readFile of an existing file fails (an error other than ENOENT)
ReadFileFail(i) ==
    /\ IoReady(i, "readFile") /\ CanFail
    /\ Has(files, Target(ops[i].path))
    /\ faults' = faults + 1
    /\ Finish(i, "failed", Err)
    /\ UNCHANGED <<files, dirs, now, enableBackup, crashes, tools, cfg>>

(* ------------------------------- delete -------------------------------- *)
\* faulty variant: ENOENT is thrown like any other error
UnlinkDoneThrowsOnMissing(i) ==
    /\ IoReady(i, "unlink")
    /\ LET t == Target(ops[i].path) IN
       IF Has(files, t)
       THEN files' = Drop(files, t) /\ Finish(i, "done", [st |-> "true", v |-> Default])
       ELSE UNCHANGED files /\ Finish(i, "failed", Err)
    /\ UNCHANGED <<dirs, now, enableBackup, faults, crashes, tools, cfg>>

UnlinkDone(i) ==
    /\ IoReady(i, "unlink")
    /\ LET t == Target(ops[i].path) IN
       IF Has(files, t)
       THEN files' = Drop(files, t) /\ Finish(i, "done", [st |-> "true", v |-> Default])
       ELSE UNCHANGED files /\ Finish(i, "done", [st |-> "false", v |-> Default])
    /\ UNCHANGED <<dirs, now, enableBackup, faults, crashes, tools, cfg>>

\* unlink of an existing file fails (an error other than ENOENT)
UnlinkFail(i) ==
    /\ IoReady(i, "unlink") /\ CanFail
    /\ Has(files, Target(ops[i].path))
    /\ faults' = faults + 1
    /\ Finish(i, "failed", Err)
    /\ UNCHANGED <<files, dirs, now, enableBackup, crashes, tools, cfg>>


(* --------------------------- write and append -------------------------- *)
Step(i, pc) == ops' = [ops EXCEPT ![i].pc = pc]

\* `${filePath}.tmp.${Date.now()}`: the clock is read when createBackup returns
ToWriteTemp(i) == ops' = [ops EXCEPT ![i].pc = "writeTemp", ![i].tmp = now]

\* append: readFile and JSON.parse, any failure giving [], then push
AppReadDone(i) ==
    /\ IoReady(i, "appRead")
    /\ LET t == Target(ops[i].path)
           existing == IF Has(files, t) /\ Parses(files[t]) THEN Parse(files[t]) ELSE List(<<>>)
       IN IF existing.t = "arr"
          THEN /\ ops' = [ops EXCEPT ![i].pc = "ensureDir",
                                    ![i].data = List(existing.e \o ops[i].arg.e)]
               /\ UNCHANGED <<fileLocks, microtasks>>
          ELSE Finish(i, "failed", Err)   \* existing.push is not a function
    /\ UNCHANGED <<files, dirs, now, enableBackup, faults, crashes, tools, cfg>>

\* append: readFile fails with an I/O error, caught like every other failure
AppReadFail(i) ==
    /\ IoReady(i, "appRead") /\ CanFail
    /\ Has(files, Target(ops[i].path))
    /\ faults' = faults + 1
    /\ ops' = [ops EXCEPT ![i].pc = "ensureDir", ![i].data = ops[i].arg, ![i].ioErr = TRUE]
    /\ UNCHANGED <<files, dirs, fileLocks, microtasks, now, enableBackup, crashes, tools, cfg>>

\* ensureDir, then createBackup up to its first fs call
EnsureDirDone(i) ==
    /\ IoReady(i, "ensureDir")
    /\ dirs' = dirs \cup DirsUpTo(Dirname(ops[i].path))
    /\ IF enableBackup THEN Step(i, "access") ELSE ToWriteTemp(i)
    /\ UNCHANGED <<files, fileLocks, microtasks, now, enableBackup, faults, crashes, tools, cfg>>

\* createBackup: fsp.access(filePath), then Date.now()
AccessDone(i) ==
    /\ IoReady(i, "access")
    /\ IF Has(files, Target(ops[i].path))
       THEN ops' = [ops EXCEPT ![i].pc = "copy", ![i].ts = now]
       ELSE ToWriteTemp(i)
    /\ UNCHANGED <<files, dirs, fileLocks, microtasks, now, enableBackup, faults, crashes, tools, cfg>>

\* copyFile has written part of the backup
CopyProgress(i) ==
    /\ IoReady(i, "copy")
    /\ LET b == BackupPath(ops[i].path, ops[i].ts)
           part == Truncated(files[Target(ops[i].path)])
       IN /\ ~(Has(files, b) /\ files[b] = part)
          /\ files' = Put(files, b, part)
    /\ UNCHANGED <<dirs, fileLocks, ops, microtasks, now, enableBackup, faults, crashes, tools, cfg>>

CopyDone(i) ==
    /\ IoReady(i, "copy")
    /\ files' = Put(files, BackupPath(ops[i].path, ops[i].ts), files[Target(ops[i].path)])
    /\ Step(i, "readdir")
    /\ UNCHANGED <<dirs, fileLocks, microtasks, now, enableBackup, faults, crashes, tools, cfg>>

\* copyFile fails: a destination it had opened is removed; the catch of
\* createBackup swallows the error
CopyFail(i) ==
    /\ IoReady(i, "copy") /\ CanFail
    /\ faults' = faults + 1
    /\ LET b == BackupPath(ops[i].path, ops[i].ts) IN
       \E opened \in BOOLEAN :
          /\ (Has(files, b) /\ ~Parses(files[b])) => opened
          /\ files' = IF opened THEN Drop(files, b) ELSE files
    /\ ToWriteTemp(i)
    /\ UNCHANGED <<dirs, fileLocks, microtasks, now, enableBackup, crashes, tools, cfg>>

\* f.startsWith(basename)
StartsWith(name, prefix) ==
    Len(name) >= Len(prefix) /\ SubSeq(name, 1, Len(prefix)) = prefix

\* files.filter(f => f.startsWith(basename) && f.endsWith('.bak'))
Backups(p) ==
    {n \in DOMAIN files : /\ n.ext = "bak"
                          /\ Dirname(n.path) = Dirname(p)
                          /\ StartsWith(Basename(n.path), Basename(p))}

RECURSIVE SortReverse(_)
\* .sort().reverse(): the names in descending string order
SortReverse(S) ==
    IF S = {} THEN <<>>
    ELSE Once({<<m>> \o SortReverse(S \ {m})
               : m \in {x \in S : \A y \in S \ {x} : NameLess(y, x)}})

\* the backups the loop `for (i = maxBackups; i < backups.length; i++)` unlinks
Excess(p) ==
    LET b == SortReverse(Backups(p))
    IN SubSeq(b, DefaultMaxBackups + 1, Len(b))

ReaddirDone(i) ==
    /\ IoReady(i, "readdir")
    /\ IF Excess(ops[i].path) = <<>> THEN ToWriteTemp(i)
       ELSE ops' = [ops EXCEPT ![i].pc = "unlinkBak", ![i].del = Excess(ops[i].path)]
    /\ UNCHANGED <<files, dirs, fileLocks, microtasks, now, enableBackup, faults, crashes, tools, cfg>>

\* one fsp.unlink of the cleanup loop
UnlinkBakDone(i) ==
    /\ IoReady(i, "unlinkBak")
    /\ files' = Drop(files, Head(ops[i].del))
    /\ IF Len(ops[i].del) = 1
       THEN ops' = [ops EXCEPT ![i].pc = "writeTemp", ![i].tmp = now, ![i].del = <<>>]
       ELSE ops' = [ops EXCEPT ![i].del = Tail(@)]
    /\ UNCHANGED <<dirs, fileLocks, microtasks, now, enableBackup, faults, crashes, tools, cfg>>

\* writeFile has written part of the temp file
WriteTempProgress(i) ==
    /\ IoReady(i, "writeTemp")
    /\ LET t == TempPath(ops[i].path, ops[i].tmp)
           part == Truncated(Stringify(ops[i].data))
       IN /\ ~(Has(files, t) /\ files[t] = part)
          /\ files' = Put(files, t, part)
    /\ UNCHANGED <<dirs, fileLocks, ops, microtasks, now, enableBackup, faults, crashes, tools, cfg>>

WriteTempDone(i) ==
    /\ IoReady(i, "writeTemp")
    /\ files' = Put(files, TempPath(ops[i].path, ops[i].tmp), Stringify(ops[i].data))
    /\ Step(i, "rename")
    /\ UNCHANGED <<dirs, fileLocks, microtasks, now, enableBackup, faults, crashes, tools, cfg>>

\* writeFile fails, leaving what it had written
WriteTempFail(i) ==
    /\ IoReady(i, "writeTemp") /\ CanFail
    /\ faults' = faults + 1
    /\ Step(i, "cleanup")
    /\ UNCHANGED <<files, dirs, fileLocks, microtasks, now, enableBackup, crashes, tools, cfg>>

\* fsp.rename(tempPath, filePath)
RenameDone(i) ==
    /\ IoReady(i, "rename")
    /\ LET t == TempPath(ops[i].path, ops[i].tmp)
       IN files' = Drop(Put(files, Target(ops[i].path), files[t]), t)
    /\ Finish(i, "done", Ok(Default))
    /\ UNCHANGED <<dirs, now, enableBackup, faults, crashes, tools, cfg>>

RenameFail(i) ==
    /\ IoReady(i, "rename") /\ CanFail
    /\ faults' = faults + 1
    /\ Step(i, "cleanup")
    /\ UNCHANGED <<files, dirs, fileLocks, microtasks, now, enableBackup, crashes, tools, cfg>>

\* faulty variant: the temp file is left where it is
CleanupDoneNoUnlink(i) ==
    /\ IoReady(i, "cleanup")
    /\ Finish(i, "failed", Err)
    /\ UNCHANGED <<files, dirs, now, enableBackup, faults, crashes, tools, cfg>>

\* catch: fsp.unlink(tempPath).catch(() => {}), then throw error
CleanupDone(i) ==
    /\ IoReady(i, "cleanup")
    /\ files' = Drop(files, TempPath(ops[i].path, ops[i].tmp))
    /\ Finish(i, "failed", Err)
    /\ UNCHANGED <<dirs, now, enableBackup, faults, crashes, tools, cfg>>

(* ----------------------------- environment ----------------------------- *)
\* the fs calls whose completion is followed by a Date.now()
BeforeClockRead(i) ==
    \/ ops[i].pc \in {"access", "copy", "readdir", "unlinkBak"}
    \/ ops[i].pc = "ensureDir" /\ ~enableBackup

\* a millisecond passes while such a call is pending
Tick ==
    /\ microtasks = <<>>
    /\ \E i \in Ids : BeforeClockRead(i)
    /\ now < ClockStart + MaxTicks
    /\ now' = now + 1
    /\ UNCHANGED <<files, dirs, fileLocks, ops, microtasks, enableBackup, faults, crashes, tools, cfg>>

\* the process dies and is started again: memory is lost, the disk is kept
Crash ==
    /\ crashes < MaxCrashes
    /\ \E i \in Ids : Live(i)
    /\ crashes' = crashes + 1
    /\ ops' = [i \in Ids |-> IF Live(i) THEN Retired(ops[i], "crashed", NoRes) ELSE ops[i]]
    /\ fileLocks' = <<>>
    /\ microtasks' = <<>>
    /\ tools' = [h \in DOMAIN tools |->
                  IF tools[h].pc \in {"done", "failed"} THEN tools[h]
                  ELSE [tools[h] EXCEPT !.pc = "crashed"]]
    /\ UNCHANGED <<files, dirs, now, enableBackup, faults, cfg>>

(* ---------------------------- specifications --------------------------- *)
Kinds == {"read", "write", "append", "delete"}
RootIndex == <<"root", <<"index.json">>>>
SubIndex == <<"sub", <<"index.json">>>>
Calls == {RootIndex, SubIndex}

\* A data directory left by earlier runs: index.json of the root store with the
\* backups of its three previous versions, its current content damaged since;
\* checkpoints/index.json was never written.
OldVersion(k) == Obj(<<0 - k>>)
\* the file p holding c, with the backups of its three previous versions
Aged(p, c) ==
    [n \in {Target(p)} \cup {BackupPath(p, ClockStart - k) : k \in 1..DefaultMaxBackups}
        |-> IF n.ext = "" THEN c ELSE Stringify(OldVersion(ClockStart - n.ts))]
InitFiles == Aged(getFilePath("root", <<"index.json">>), Junk)
InitDisk ==
    /\ files = InitFiles
    /\ dirs = DirsUpTo(BasePath)

\* the process at start: nothing locked, nothing called
InitProc ==
    /\ fileLocks = <<>>
    /\ ops = <<>>
    /\ microtasks = <<>>
    /\ now = ClockStart
    /\ faults = 0
    /\ crashes = 0
    /\ tools = <<>>

\* no environment variable set: the default ceilings
InitMem == InitProc /\ cfg = DefaultCeilings

\* initStore(contextPath): backups enabled
Init == InitDisk /\ InitMem /\ enableBackup = TRUE

\* completions of the fs calls, atomic ones
IoStep(i) ==
    \/ ReadFileDone(i) \/ ReadFileFail(i)
    \/ UnlinkDone(i) \/ UnlinkFail(i)
    \/ AppReadDone(i) \/ AppReadFail(i)
    \/ EnsureDirDone(i) \/ AccessDone(i)
    \/ CopyDone(i) \/ CopyFail(i)
    \/ ReaddirDone(i) \/ UnlinkBakDone(i)
    \/ WriteTempDone(i) \/ WriteTempFail(i)
    \/ RenameDone(i) \/ RenameFail(i) \/ CleanupDone(i)

(* Spec: concurrent callers on the root store and the sub-store *)
Next ==
    \/ \E k \in Kinds, c \in Calls : Call(k, c[1], c[2])
    \/ ContDone
    \/ Wake
    \/ \E i \in Ids : IoStep(i)

Spec == Init /\ [][Next]_vars

(* SpecQ: concurrent callers contending for one path *)
CallQ(kind) ==
    /\ Len(ops) < MaxQOps
    /\ CallerRuns
    /\ Issue(kind, RootIndex[1], RootIndex[2])

NextQ ==
    \/ \E k \in Kinds : CallQ(k)
    \/ ContDone
    \/ Wake
    \/ \E i \in Ids : IoStep(i)

SpecQ == Init /\ [][NextQ]_vars

(* SpecLive: the callers of SpecQ with the event loop running *)
CallLive(kind) ==
    /\ Len(ops) < MaxLiveOps
    /\ CallerRuns
    /\ Issue(kind, RootIndex[1], RootIndex[2])

\* one turn of the event loop: a queued microtask runs, or a pending fs call
\* settles, with its result or with an error
RunLive == ContDone \/ Wake \/ \E i \in Ids : IoStep(i)

NextLive ==
    \/ \E k \in Kinds : CallLive(k)
    \/ RunLive

\* as long as a microtask is queued or an fs call is pending, the loop turns
SpecLive == Init /\ [][NextLive]_vars /\ WF_vars(RunLive)

(* SpecHang: callers on two paths; an fs call of an operation on the first
   path may never settle, and then its locked section never returns *)
OnP(i) == ops[i].path = getFilePath(RootIndex[1], RootIndex[2])
Hung(i) == ops[i].pc = "hung"

\* the promise of the fs call that i awaits inside its locked section stays
\* pending: `await fn()` never returns and the finally block is not reached
Hang(i) ==
    /\ i \in Ids /\ InCS(i) /\ ~Hung(i) /\ OnP(i)
    /\ ops' = [ops EXCEPT ![i].pc = "hung"]
    /\ UNCHANGED <<files, dirs, fileLocks, microtasks, now, enableBackup, faults, crashes, tools, cfg>>

\* the operations called: one that only reads and one that goes through every
\* step of a write
HangKinds == {"read", "write"}

CallHang(kind, c) ==
    /\ Len(ops) < MaxHangOps
    /\ CallerRuns
    /\ Issue(kind, c[1], c[2])

NextHang ==
    \/ \E k \in HangKinds, c \in Calls : CallHang(k, c)
    \/ \E i \in Ids : Hang(i)
    \/ RunLive

\* the event loop keeps turning for everything but the call that hangs
SpecHang == Init /\ [][NextHang]_vars /\ WF_vars(RunLive)

(* SpecSeq: one caller that awaits each operation; the clock runs, the    *)
(* process may crash, partial files are visible                            *)
InitSeq == InitDisk /\ InitMem /\ enableBackup \in BOOLEAN

CallSeq(kind) ==
    /\ Len(ops) < MaxSeqOps
    /\ CallerRuns
    /\ \A i \in Ids : Ended(i)
    /\ Issue(kind, RootIndex[1], RootIndex[2])

NextSeq ==
    \/ \E k \in Kinds : CallSeq(k)
    \/ ContDone
    \/ \E i \in Ids : IoStep(i)
    \/ Tick

SpecSeq == InitSeq /\ [][NextSeq]_vars

(* SpecBak: one caller that awaits each operation, backups enabled; the    *)
(* readdir and the unlinks of createBackup may fail as well                *)
\* readdir fails: the catch of createBackup swallows the error and no backup
\* is removed
ReaddirFail(i) ==
    /\ IoReady(i, "readdir") /\ CanFail
    /\ faults' = faults + 1
    /\ ToWriteTemp(i)
    /\ UNCHANGED <<files, dirs, fileLocks, microtasks, now, enableBackup, crashes, tools, cfg>>

\* the unlink of an excess backup fails: `.catch(() => {})`, the loop goes on
UnlinkBakFail(i) ==
    /\ IoReady(i, "unlinkBak") /\ CanFail
    /\ faults' = faults + 1
    /\ IF Len(ops[i].del) = 1
       THEN ops' = [ops EXCEPT ![i].pc = "writeTemp", ![i].tmp = now, ![i].del = <<>>]
       ELSE ops' = [ops EXCEPT ![i].del = Tail(@)]
    /\ UNCHANGED <<files, dirs, fileLocks, microtasks, now, enableBackup, crashes, tools, cfg>>

CallBak(kind) ==
    /\ Len(ops) < MaxBakOps
    /\ CallerRuns
    /\ \A i \in Ids : Ended(i)
    /\ Issue(kind, RootIndex[1], RootIndex[2])

NextBak ==
    \/ \E k \in Kinds : CallBak(k)
    \/ ContDone
    \/ \E i \in Ids : IoStep(i)
    \/ \E i \in Ids : ReaddirFail(i)
    \/ \E i \in Ids : UnlinkBakFail(i)
    \/ Tick

SpecBak == Init /\ [][NextBak]_vars

(* SpecTmp: one caller that awaits each operation; after a failed temp-file *)
(* write or rename, the unlink of the temp file may fail as well            *)
\* catch: fsp.unlink(tempPath) fails, `.catch(() => {})`, then throw error
CleanupFail(i) ==
    /\ IoReady(i, "cleanup") /\ faults < MaxTmpFaults
    /\ faults' = faults + 1
    /\ Finish(i, "failed", Err)
    /\ UNCHANGED <<files, dirs, now, enableBackup, crashes, tools, cfg>>

CallTmp(kind) ==
    /\ Len(ops) < MaxTmpOps
    /\ CallerRuns
    /\ \A i \in Ids : Ended(i)
    /\ Issue(kind, RootIndex[1], RootIndex[2])

NextTmp ==
    \/ \E k \in Kinds : CallTmp(k)
    \/ ContDone
    \/ \E i \in Ids : IoStep(i)
    \/ \E i \in Ids : WriteTempProgress(i)
    \/ \E i \in Ids : CleanupFail(i)
    \/ Tick

SpecTmp == Init /\ [][NextTmp]_vars

(* SpecCrash: one caller that awaits each operation; copyFile and writeFile *)
(* are seen partly done, and the process may crash and start again         *)
IoStepOk(i) ==
    \/ ReadFileDone(i) \/ UnlinkDone(i) \/ AppReadDone(i)
    \/ EnsureDirDone(i) \/ AccessDone(i) \/ CopyDone(i)
    \/ ReaddirDone(i) \/ UnlinkBakDone(i)
    \/ WriteTempDone(i) \/ RenameDone(i)

CallCrash(kind) ==
    /\ Len(ops) < MaxCrashOps
    /\ CallerRuns
    /\ \A i \in Ids : Ended(i)
    /\ Issue(kind, RootIndex[1], RootIndex[2])

NextCrash ==
    \/ \E k \in Kinds : CallCrash(k)
    \/ ContDone
    \/ \E i \in Ids : IoStepOk(i) \/ CopyProgress(i) \/ WriteTempProgress(i)
    \/ Tick
    \/ Crash

SpecCrash == Init /\ [][NextCrash]_vars

(* SpecPfx: one caller that awaits each write, on index.json and on a file *)
(* of the same directory whose name starts with "index.json"               *)
\* names of which "index.json" is a prefix: one sorts after "index.json.", the
\* other before it
PfxNames == {<<"index.json2">>, <<"index.json-old">>}

\* both files with the backups of their three previous versions
InitPfx ==
    /\ \E g \in PfxNames :
          files = Aged(getFilePath("root", <<"index.json">>), Junk)
                     @@ Aged(getFilePath("root", g), Junk)
    /\ dirs = DirsUpTo(BasePath)
    /\ InitMem /\ enableBackup = TRUE

CallPfx(fname) ==
    /\ Len(ops) < MaxPfxOps
    /\ CallerRuns
    /\ \A i \in Ids : Ended(i)
    /\ Issue("write", "root", fname)

NextPfx ==
    \/ \E f \in PfxNames \cup {RootIndex[2]} : CallPfx(f)
    \/ ContDone
    \/ \E i \in Ids : IoStepOk(i)
    \/ Tick

SpecPfx == InitPfx /\ [][NextPfx]_vars

(* SpecRT: one caller that awaits each operation; it writes any document,  *)
(* reads with any default and deletes, in the root store and the sub-store *)
JsonValues ==
    { Null, Num(0 - 1), Str(1), List(<<>>), Map(<<>>),
      List(<<Num(1), List(<<>>), Str(2)>>),
      Map(<<Member(1, List(<<JTrue, Map(<<>>)>>)), Member(2, Null)>>) }
Defaults == {Default, List(<<>>)}

\* completions of the fs calls of read and write, none failing
IoStepRW(i) ==
    \/ ReadFileDone(i)
    \/ EnsureDirDone(i) \/ AccessDone(i) \/ CopyDone(i)
    \/ ReaddirDone(i) \/ UnlinkBakDone(i)
    \/ WriteTempDone(i) \/ RenameDone(i)

IoStepRT(i) == IoStepRW(i) \/ UnlinkDone(i)

CallRT(c) ==
    /\ Len(ops) < MaxRtOps
    /\ CallerRuns
    /\ \A i \in Ids : Ended(i)
    /\ \/ \E v \in JsonValues : IssueArg("write", c[1], c[2], v)
       \/ \E d \in Defaults : IssueArg("read", c[1], c[2], d)
       \/ IssueArg("delete", c[1], c[2], Null)

NextRT ==
    \/ \E c \in Calls : CallRT(c)
    \/ ContDone
    \/ \E i \in Ids : IoStepRT(i)

SpecRT == Init /\ [][NextRT]_vars

(* ------------------------- nested lock scopes --------------------------- *)
(* An operation "nested" is withFileLock(p, () => withFileLock(p, read)):   *)
(* no operation of FileStore is written so, it is the nesting the lock      *)
(* forbids.  ops[i].inner is the inner acquisition.                         *)

\* faulty variant: the inner acquisition passes the lock its caller holds
NestInnerReentrant(i) ==
    /\ i \in Ids /\ ops[i].pc = "inner"
    /\ LET j == Len(ops) + 1
           o == NewOp("read", ops[i].store, ops[i].fname, Default)
       IN ops' = Append([ops EXCEPT ![i].pc = "awaitInner", ![i].inner = j],
                        [o EXCEPT !.pc = FirstPc("read")])
    /\ UNCHANGED <<files, dirs, fileLocks, microtasks, now, enableBackup, faults, crashes,
                   tools, cfg>>

\* fn() of the outer scope calls withFileLock on the same path and awaits it
NestInner(i) ==
    /\ i \in Ids /\ ops[i].pc = "inner"
    /\ LET j == Len(ops) + 1
           o == Append([ops EXCEPT ![i].pc = "awaitInner", ![i].inner = j],
                       NewOp("read", ops[i].store, ops[i].fname, Default))
           r == withFileLock(o, fileLocks, j)
       IN ops' = r.ops /\ fileLocks' = r.locks
    /\ UNCHANGED <<files, dirs, microtasks, now, enableBackup, faults, crashes, tools, cfg>>

\* the inner scope has returned: fn() of the outer scope returns its result
NestResume(i) ==
    /\ i \in Ids /\ ops[i].pc = "awaitInner"
    /\ microtasks # <<>> /\ Head(microtasks) = [t |-> "cont", op |-> ops[i].inner]
    /\ ops' = [ops EXCEPT ![i] = Retired(@, ops[ops[i].inner].pc, ops[ops[i].inner].res)]
    /\ fileLocks' = Drop(fileLocks, LockKey(ops[i].store, ops[i].fname))
    /\ microtasks' = Tail(microtasks) \o ReleaseJobs(i)
    /\ UNCHANGED <<files, dirs, now, enableBackup, faults, crashes, tools, cfg>>

(* SpecNest: callers read, write and nest lock scopes on one path *)
NestKinds == {"read", "write", "nested"}
CallNest(kind) ==
    /\ Len(ops) < MaxNestOps
    /\ CallerRuns
    /\ Issue(kind, RootIndex[1], RootIndex[2])

NextNest ==
    \/ \E k \in NestKinds : CallNest(k)
    \/ ContDone
    \/ Wake
    \/ \E i \in Ids : NestInner(i) \/ NestResume(i)
    \/ \E i \in Ids : IoStepRW(i)

SpecNest == Init /\ [][NextNest]_vars

(* ============================== the tools ============================== *)
(* A tool handler is an async function: it runs from its call, or from the *)
(* completion of the store operation it awaits, up to its next await or    *)
(* its return.  tools[h].op is the store operation that handler h awaits,  *)
(* tools[h].doc the document it holds in memory.                           *)

\* the property names of the documents, as string ids
KVersion == 101
KEntries == 102
KKey == 103
KValue == 104
KCreatedAt == 105
KUpdatedAt == 106
KTtl == 107
KProjectName == 108
KCheckpoints == 109
KSummaries == 110
KId == 111
KState == 112
KTags == 113

NoOut == [st |-> "none", v |-> Null]
Reply(st, v) == [st |-> st, v |-> v]

\* a call of tool name with its arguments: a key, a value and a ttl
\* (keep and dry: keepCount and dryRun of tracker_cleanup; ids: the ids of
\* context_merge_summaries), and its locals: rm, the checkpoints left to
\* delete, pend, the operations a Promise.all awaits, removed, the count of
\* cleanupExpiredMemories(), and memories, the result of getMemoryList()
NewTool(name, key, val, ttl) ==
    [name |-> name, key |-> key, val |-> val, ttl |-> ttl, keep |-> 0, dry |-> FALSE,
     ids |-> {}, pc |-> "start", op |-> 0, doc |-> Null, out |-> NoOut,
     rm |-> <<>>, pend |-> {}, removed |-> 0, memories |-> Null]

ToolEnded(h) == tools[h].pc \in {"done", "failed", "crashed"}

\* the client calls a tool when the tools it called before have answered
ClientRuns == microtasks = <<>> /\ \A h \in DOMAIN tools : ToolEnded(h)

\* handler h, its record being t from now on, calls store.<kind>(fname, v) and
\* awaits it: withFileLock runs up to its first await
Await(tl, h, kind, store, fname, v) ==
    LET r == withFileLock(Append(ops, NewOp(kind, store, fname, v)), fileLocks, Len(ops) + 1)
    IN /\ ops' = r.ops
       /\ fileLocks' = r.locks
       /\ dirs' = dirs \cup DirsUpTo(StoreBase(store))
       /\ tools' = [tl EXCEPT ![h].op = Len(ops) + 1]

\* handler h is resumed at pc by the completion of the operation it awaits
Resumed(h, pc) ==
    /\ tools[h].pc = pc
    /\ microtasks # <<>> /\ Head(microtasks) = [t |-> "cont", op |-> tools[h].op]
    /\ microtasks' = Tail(microtasks)

\* what the awaited operation returned, or that it threw
Awaited(h) == ops[tools[h].op].res
Threw(h) == ops[tools[h].op].pc = "failed"

\* handler h returns (pc "done") or throws (pc "failed")
Return(h, pc, out) ==
    /\ tools' = [tools EXCEPT ![h].pc = pc, ![h].out = out, ![h].doc = Null]
    /\ UNCHANGED <<ops, fileLocks, dirs>>

(* ------------------------------- memory -------------------------------- *)
MEMORY_FILE == <<"memory.json">>
\* { version: STORAGE_VERSION, entries: {} }
MemoryDefault == Map(<<Member(KVersion, Num(STORAGE_VERSION)), Member(KEntries, Map(<<>>))>>)

\* new Date().toISOString() at clock reading ms, and new Date(s).getTime()
ToISOString(ms) == Str(ms)
GetTime(s) == s.n

\* getMemoryStore, after its read: if (!data.version) data.version = STORAGE_VERSION
WithVersion(data) ==
    IF Falsy(Get(data, KVersion)) THEN Set(data, KVersion, Num(STORAGE_VERSION)) ELSE data

\* isExpired(entry), Date.now() being clock
isExpired(entry, clock) ==
    IF Falsy(Get(entry, KTtl)) THEN FALSE
    ELSE clock > GetTime(Get(entry, KUpdatedAt)) + Get(entry, KTtl).n

\* saveMemoryStore(data) up to its await
SaveMemory(tl, h, data) ==
    Await(tl, h, "write", "root", MEMORY_FILE, Set(data, KVersion, Num(STORAGE_VERSION)))

\* memory_set({key, value, ttl}): up to the await of getMemoryStore()
MemorySetStart(max, key, ttl) ==
    /\ Len(tools) < max
    /\ LET h == Len(tools) + 1
           t == [NewTool("memory_set", key, Num(h), ttl) EXCEPT !.pc = "set.load"]
       IN Await(Append(tools, t), h, "read", "root", MEMORY_FILE, MemoryDefault)
    /\ UNCHANGED <<files, microtasks, now, enableBackup, faults, crashes, cfg>>

\* memory_set called by a client that awaits each call
MemorySetCall(key, ttl) == ClientRuns /\ MemorySetStart(MaxMemCalls, key, ttl)

\* memory_set: the store is loaded; the entry is put, with updatedAt now and
\* the createdAt of the entry it replaces, and the store is saved
MemorySetLoaded(h) ==
    /\ Resumed(h, "set.load")
    /\ IF Threw(h) THEN Return(h, "failed", Reply("error", Null))
       ELSE LET memStore == WithVersion(Awaited(h).v)
                entries == Get(memStore, KEntries)
                existing == Get(entries, tools[h].key)
                created == IF Falsy(existing) \/ Falsy(Get(existing, KCreatedAt))
                           THEN ToISOString(now) ELSE Get(existing, KCreatedAt)
                entry == Map(<<Member(KKey, Str(tools[h].key)),
                               Member(KValue, tools[h].val),
                               Member(KCreatedAt, created),
                               Member(KUpdatedAt, ToISOString(now)),
                               Member(KTtl, tools[h].ttl)>>)
                saved == Set(memStore, KEntries, Set(entries, tools[h].key, entry))
            IN SaveMemory([tools EXCEPT ![h].pc = "set.save", ![h].doc = saved], h, saved)
    /\ UNCHANGED <<files, now, enableBackup, faults, crashes, cfg>>

\* memory_set: the store is saved
MemorySetSaved(h) ==
    /\ Resumed(h, "set.save")
    /\ IF Threw(h) THEN Return(h, "failed", Reply("error", Null))
       ELSE Return(h, "done", Reply("saved", Null))
    /\ UNCHANGED <<files, now, enableBackup, faults, crashes, cfg>>

\* memory_get({key}): up to the await of getMemoryStore()
MemoryGetStart(max, key) ==
    /\ Len(tools) < max
    /\ LET h == Len(tools) + 1
           t == [NewTool("memory_get", key, Null, Undefined) EXCEPT !.pc = "get.load"]
       IN Await(Append(tools, t), h, "read", "root", MEMORY_FILE, MemoryDefault)
    /\ UNCHANGED <<files, microtasks, now, enableBackup, faults, crashes, cfg>>

\* memory_get called by a client that awaits each call
MemoryGetCall(key) == ClientRuns /\ MemoryGetStart(MaxMemCalls, key)

\* memory_get: the store is loaded; no entry: not found; an expired entry is
\* deleted and the store saved; any other entry is returned, without its ttl
MemoryGetLoaded(h) ==
    /\ Resumed(h, "get.load")
    /\ IF Threw(h) THEN Return(h, "failed", Reply("error", Null))
       ELSE LET memStore == WithVersion(Awaited(h).v)
                entries == Get(memStore, KEntries)
                entry == Get(entries, tools[h].key)
                saved == Set(memStore, KEntries, Del(entries, tools[h].key))
            IN IF Falsy(entry) THEN Return(h, "done", Reply("not found", Null))
               ELSE IF isExpired(entry, now)
               THEN SaveMemory([tools EXCEPT ![h].pc = "get.save", ![h].doc = saved], h, saved)
               ELSE Return(h, "done", Reply("found", Del(entry, KTtl)))
    /\ UNCHANGED <<files, now, enableBackup, faults, crashes, cfg>>

\* memory_get: the store is saved without the expired entry
MemoryGetSaved(h) ==
    /\ Resumed(h, "get.save")
    /\ IF Threw(h) THEN Return(h, "failed", Reply("error", Null))
       ELSE Return(h, "done", Reply("expired", Null))
    /\ UNCHANGED <<files, now, enableBackup, faults, crashes, cfg>>

\* time passes between two tool calls
Elapse ==
    /\ ClientRuns
    /\ now < ClockStart + MaxTicks
    /\ now' = now + 1
    /\ UNCHANGED <<files, dirs, fileLocks, ops, microtasks, enableBackup, faults, crashes,
                   tools, cfg>>

\* what memory_list and getMemoryList return of an entry
Listed(e) == Map(<<Member(KKey, Get(e, KKey)), Member(KUpdatedAt, Get(e, KUpdatedAt))>>)
\* the values of the object o, as Object.values(o) gives them
Values(o) == [k \in 1..Len(o.e) |-> o.e[k].e[1]]
\* memory_list: the entries that are not expired, Date.now() being clock
MemoryList(memStore, clock) ==
    LET entries == SelectSeq(Values(Get(memStore, KEntries)), LAMBDA e : ~isExpired(e, clock))
    IN List([k \in 1..Len(entries) |-> Listed(entries[k])])

\* memory_list(): up to the await of getMemoryStore()
MemoryListCall(max) ==
    /\ Len(tools) < max
    /\ ClientRuns
    /\ LET h == Len(tools) + 1
           t == [NewTool("memory_list", 0, Null, Undefined) EXCEPT !.pc = "list.load"]
       IN Await(Append(tools, t), h, "read", "root", MEMORY_FILE, MemoryDefault)
    /\ UNCHANGED <<files, microtasks, now, enableBackup, faults, crashes, cfg>>

\* memory_list: the store is loaded
MemoryListLoaded(h) ==
    /\ Resumed(h, "list.load")
    /\ IF Threw(h) THEN Return(h, "failed", Reply("error", Null))
       ELSE Return(h, "done", Reply("list", MemoryList(WithVersion(Awaited(h).v), now)))
    /\ UNCHANGED <<files, now, enableBackup, faults, crashes, cfg>>

\* cleanupExpiredMemories(), its store loaded: the store without the expired
\* entries
Swept(memStore, clock) ==
    LET entries == Get(memStore, KEntries)
    IN Set(memStore, KEntries, Map(SelectSeq(entries.e, LAMBDA m : ~isExpired(m.e[1], clock))))
\* the number of entries of a memory store
Count(memStore) == Len(Get(memStore, KEntries).e)

\* memory_cleanup(): up to the await of getMemoryStore() in
\* cleanupExpiredMemories()
MemoryCleanupCall(max) ==
    /\ Len(tools) < max
    /\ ClientRuns
    /\ LET h == Len(tools) + 1
           t == [NewTool("memory_cleanup", 0, Null, Undefined) EXCEPT !.pc = "sweep.load"]
       IN Await(Append(tools, t), h, "read", "root", MEMORY_FILE, MemoryDefault)
    /\ UNCHANGED <<files, microtasks, now, enableBackup, faults, crashes, cfg>>

\* memory_cleanup: the store is loaded; the expired entries are deleted and,
\* if there were any, the store is saved
MemoryCleanupLoaded(h) ==
    /\ Resumed(h, "sweep.load")
    /\ IF Threw(h) THEN Return(h, "failed", Reply("error", Null))
       ELSE LET memStore == WithVersion(Awaited(h).v)
                removed == Count(memStore) - Count(Swept(memStore, now))
            IN IF removed > 0
               THEN SaveMemory([tools EXCEPT ![h].pc = "sweep.save", ![h].removed = removed,
                                             ![h].doc = Swept(memStore, now)],
                               h, Swept(memStore, now))
               ELSE Return(h, "done", Reply("cleaned", Num(0)))
    /\ UNCHANGED <<files, now, enableBackup, faults, crashes, cfg>>

\* memory_cleanup: the store is saved
MemoryCleanupSaved(h) ==
    /\ Resumed(h, "sweep.save")
    /\ IF Threw(h) THEN Return(h, "failed", Reply("error", Null))
       ELSE Return(h, "done", Reply("cleaned", Num(tools[h].removed)))
    /\ UNCHANGED <<files, now, enableBackup, faults, crashes, cfg>>

(* SpecMem: a client that awaits each tool call sets and gets two keys of a *)
(* memory.json that holds an entry with a ttl already                       *)
MemKeys == {1, 2}
Ttls == {Undefined, Num(0), Num(1)}
\* the entry written by an earlier run: key 1, a ttl of 2 ms, updated 1 ms ago
OldEntry ==
    Map(<<Member(KKey, Str(1)), Member(KValue, Num(0)),
          Member(KCreatedAt, ToISOString(ClockStart - 2)),
          Member(KUpdatedAt, ToISOString(ClockStart - 1)), Member(KTtl, Num(2))>>)
InitMemoryFile ==
    Aged(getFilePath("root", MEMORY_FILE),
         Stringify(Set(MemoryDefault, KEntries, Map(<<Member(1, OldEntry)>>))))

InitSpecMem ==
    /\ files = InitMemoryFile
    /\ dirs = DirsUpTo(BasePath)
    /\ InitMem
    /\ enableBackup = TRUE

NextMem ==
    \/ \E k \in MemKeys, t \in Ttls : MemorySetCall(k, t)
    \/ \E k \in MemKeys : MemoryGetCall(k)
    \/ \E h \in DOMAIN tools : MemorySetLoaded(h) \/ MemorySetSaved(h)
    \/ \E h \in DOMAIN tools : MemoryGetLoaded(h) \/ MemoryGetSaved(h)
    \/ \E i \in Ids : IoStepRW(i)
    \/ Elapse

SpecMem == InitSpecMem /\ [][NextMem]_vars

(* ------------------------------- tracker ------------------------------- *)
TRACKER_FILE == <<"tracker.json">>
\* { version: STORAGE_VERSION, entries: [] }
TrackerDefault == Map(<<Member(KVersion, Num(STORAGE_VERSION)), Member(KEntries, List(<<>>))>>)

\* Array.prototype.slice(start): a negative start counts from the end
Slice(s, start) ==
    LET from == IF start < 0
                THEN (IF Len(s) + start < 0 THEN 0 ELSE Len(s) + start)
                ELSE (IF start > Len(s) THEN Len(s) ELSE start)
    IN SubSeq(s, from + 1, Len(s))

\* getTrackerStore, after its read: a read that threw gives an empty tracker,
\* entries that are not an array are replaced by []
LoadedTracker(h) ==
    IF Threw(h) THEN TrackerDefault
    ELSE LET data == WithVersion(Awaited(h).v)
         IN IF Get(data, KEntries).t # "arr" THEN Set(data, KEntries, List(<<>>)) ELSE data

\* faulty variant: the rotation keeps the oldest entries
RotatedKeepOldest(data) ==
    LET d == Set(data, KVersion, Num(STORAGE_VERSION))
        e == Get(d, KEntries).e
    IN IF Len(e) > cfg.MAX_ENTRIES
       THEN Set(d, KEntries, List(SubSeq(e, 1, cfg.ROTATE_KEEP))) ELSE d

\* saveTrackerStore(data), the document it writes: more than MAX_ENTRIES
\* entries are cut to entries.slice(-ROTATE_KEEP)
Rotated(data) ==
    LET d == Set(data, KVersion, Num(STORAGE_VERSION))
        e == Get(d, KEntries).e
    IN IF Len(e) > cfg.MAX_ENTRIES
       THEN Set(d, KEntries, List(Slice(e, 0 - cfg.ROTATE_KEEP))) ELSE d

\* saveTrackerStore(data) up to its await
SaveTracker(tl, h, data) ==
    Await([tl EXCEPT ![h].doc = Rotated(data)], h, "write", "root", TRACKER_FILE, Rotated(data))

\* tracker_log({type, content}): up to the await of getTrackerStore()
TrackerLogStart(max) ==
    /\ Len(tools) < max
    /\ LET h == Len(tools) + 1
           t == [NewTool("tracker_log", 0, Num(h), Undefined) EXCEPT !.pc = "log.load"]
       IN Await(Append(tools, t), h, "read", "root", TRACKER_FILE, TrackerDefault)
    /\ UNCHANGED <<files, microtasks, now, enableBackup, faults, crashes, cfg>>

\* tracker_log called by a client that awaits each call
TrackerLogCall(max) == ClientRuns /\ TrackerLogStart(max)

\* tracker_log: the tracker is loaded; the entry (known by its id) is pushed
\* and the tracker saved
TrackerLogLoaded(h) ==
    /\ Resumed(h, "log.load")
    /\ LET trackerStore == LoadedTracker(h)
           pushed == Set(trackerStore, KEntries,
                         List(Append(Get(trackerStore, KEntries).e, tools[h].val)))
       IN SaveTracker([tools EXCEPT ![h].pc = "log.save"], h, pushed)
    /\ UNCHANGED <<files, now, enableBackup, faults, crashes, cfg>>

\* tracker_log: the tracker is saved
TrackerLogSaved(h) ==
    /\ Resumed(h, "log.save")
    /\ IF Threw(h) THEN Return(h, "failed", Reply("error", Null))
       ELSE Return(h, "done", Reply("logged", tools[h].val))
    /\ UNCHANGED <<files, now, enableBackup, faults, crashes, cfg>>

\* tracker_cleanup({keepCount, dryRun}): up to the await of getTrackerStore()
TrackerCleanupCall(max, keepCount, dryRun) ==
    /\ Len(tools) < max
    /\ ClientRuns
    /\ LET h == Len(tools) + 1
           t == [NewTool("tracker_cleanup", 0, Null, Undefined)
                    EXCEPT !.pc = "clean.load", !.keep = keepCount, !.dry = dryRun]
       IN Await(Append(tools, t), h, "read", "root", TRACKER_FILE, TrackerDefault)
    /\ UNCHANGED <<files, microtasks, now, enableBackup, faults, crashes, cfg>>

\* tracker_cleanup: the tracker is loaded; nothing to do with keepCount
\* entries or fewer; a dry run reports; otherwise entries.slice(-keepCount)
\* is saved
TrackerCleanupLoaded(h) ==
    /\ Resumed(h, "clean.load")
    /\ LET trackerStore == LoadedTracker(h)
           e == Get(trackerStore, KEntries).e
           toRemove == Len(e) - tools[h].keep
           kept == Set(trackerStore, KEntries, List(Slice(e, 0 - tools[h].keep)))
       IN IF Len(e) <= tools[h].keep THEN Return(h, "done", Reply("no cleanup", Num(Len(e))))
          ELSE IF tools[h].dry
          THEN Return(h, "done", Reply("dry run", List(SubSeq(e, 1, toRemove))))
          ELSE SaveTracker([tools EXCEPT ![h].pc = "clean.save",
                                         ![h].out = Reply("cleaned", Num(toRemove))], h, kept)
    /\ UNCHANGED <<files, now, enableBackup, faults, crashes, cfg>>

\* tracker_cleanup: the tracker is saved
TrackerCleanupSaved(h) ==
    /\ Resumed(h, "clean.save")
    /\ IF Threw(h) THEN Return(h, "failed", Reply("error", Null))
       ELSE Return(h, "done", tools[h].out)
    /\ UNCHANGED <<files, now, enableBackup, faults, crashes, cfg>>

(* SpecTrk: a client that awaits each tool call logs to and cleans up a     *)
(* tracker.json left empty by earlier runs; the ceilings are configured as  *)
(* the defaults are, 1 <= ROTATE_KEEP <= MAX_ENTRIES                        *)
InitTrackerFile == Aged(getFilePath("root", TRACKER_FILE), Stringify(TrackerDefault))
KeepCounts == {0, 1}

InitSpecTrk ==
    /\ files = InitTrackerFile
    /\ dirs = DirsUpTo(BasePath)
    /\ InitProc
    /\ enableBackup = TRUE
    /\ \E m \in 1..MaxCeiling, k \in 1..MaxCeiling :
          /\ k <= m
          /\ cfg = [DefaultCeilings EXCEPT !.MAX_ENTRIES = m, !.ROTATE_KEEP = k]

NextTrk ==
    \/ TrackerLogCall(MaxTrkCalls)
    \/ \E k \in KeepCounts, d \in BOOLEAN : TrackerCleanupCall(MaxTrkCalls, k, d)
    \/ \E h \in DOMAIN tools : TrackerLogLoaded(h) \/ TrackerLogSaved(h)
    \/ \E h \in DOMAIN tools : TrackerCleanupLoaded(h) \/ TrackerCleanupSaved(h)
    \/ \E i \in Ids : IoStepRW(i)

SpecTrk == InitSpecTrk /\ [][NextTrk]_vars

(* SpecJunk: a client that awaits each call logs to and cleans up a tracker
   whose tracker.json cannot be parsed, while time passes; the copy of the
   backup may fail *)
InitSpecJunk ==
    /\ files = Aged(getFilePath("root", TRACKER_FILE), Junk)
    /\ dirs = DirsUpTo(BasePath)
    /\ InitMem
    /\ enableBackup \in BOOLEAN

NextJunk ==
    \/ TrackerLogCall(MaxJunkCalls)
    \/ \E k \in KeepCounts, d \in BOOLEAN : TrackerCleanupCall(MaxJunkCalls, k, d)
    \/ \E h \in DOMAIN tools : TrackerLogLoaded(h) \/ TrackerLogSaved(h)
    \/ \E h \in DOMAIN tools : TrackerCleanupLoaded(h) \/ TrackerCleanupSaved(h)
    \/ \E i \in Ids : IoStepRW(i)
    \/ \E i \in Ids : CopyFail(i)
    \/ Elapse

SpecJunk == InitSpecJunk /\ [][NextJunk]_vars

(* SpecTrkConc: tracker_log requests handled as they arrive, a request being
   taken up whenever the event loop is idle, the earlier ones still pending *)
InitSpecTrkConc ==
    /\ files = InitTrackerFile
    /\ dirs = DirsUpTo(BasePath)
    /\ InitMem
    /\ enableBackup = TRUE

NextTrkConc ==
    \/ microtasks = <<>> /\ TrackerLogStart(MaxTrkConcCalls)
    \/ \E h \in DOMAIN tools : TrackerLogLoaded(h) \/ TrackerLogSaved(h)
    \/ Wake
    \/ \E i \in Ids : IoStepRW(i)

SpecTrkConc == InitSpecTrkConc /\ [][NextTrkConc]_vars

(* ----------------------------- checkpoints ------------------------------ *)
CHECKPOINTS_DIR == "checkpoints"
INDEX_FILE == <<"index.json">>
\* { version: STORAGE_VERSION, checkpoints: [] }
CheckpointDefault ==
    Map(<<Member(KVersion, Num(STORAGE_VERSION)), Member(KCheckpoints, List(<<>>))>>)
\* `${id}.json`, the id being cp_<id>
CheckpointFile(id) == <<"cp_" \o ToString(id) \o ".json">>

\* saveCheckpointStore(data) up to its await
SaveCheckpoints(tl, h, data) ==
    Await([tl EXCEPT ![h].doc = Set(data, KVersion, Num(STORAGE_VERSION))], h,
          "write", CHECKPOINTS_DIR, INDEX_FILE, Set(data, KVersion, Num(STORAGE_VERSION)))

\* checkpoint_save({name, state}), whenever it is called: up to the await of
\* getCheckpointStore()
CheckpointSaveStart(max) ==
    /\ Len(tools) < max
    /\ LET h == Len(tools) + 1
           t == [NewTool("checkpoint_save", h, Map(<<Member(KValue, Num(h))>>), Undefined)
                    EXCEPT !.pc = "cp.load"]
       IN Await(Append(tools, t), h, "read", CHECKPOINTS_DIR, INDEX_FILE, CheckpointDefault)
    /\ UNCHANGED <<files, microtasks, now, enableBackup, faults, crashes, cfg>>

\* checkpoint_save called by a client that awaits each call
CheckpointSaveCall(max) == ClientRuns /\ CheckpointSaveStart(max)

\* checkpoint_save: the index is loaded; the state is written to `${id}.json`
CheckpointSaveLoaded(h) ==
    /\ Resumed(h, "cp.load")
    /\ IF Threw(h) THEN Return(h, "failed", Reply("error", Null))
       ELSE Await([tools EXCEPT ![h].pc = "cp.data", ![h].doc = WithVersion(Awaited(h).v)], h,
                  "write", CHECKPOINTS_DIR, CheckpointFile(tools[h].key), tools[h].val)
    /\ UNCHANGED <<files, now, enableBackup, faults, crashes, cfg>>

\* faulty variant: the index is saved, the data of the checkpoints rm is kept
PruneThenSaveNoDelete(tl, h, rm, data) ==
    SaveCheckpoints([tl EXCEPT ![h].pc = "cp.index", ![h].rm = <<>>], h, data)

\* handler h, its record being tl, deletes the data of the checkpoints rm one
\* after the other, then saves the index data
PruneThenSave(tl, h, rm, data) ==
    IF rm # <<>>
    THEN Await([tl EXCEPT ![h].pc = "cp.prune", ![h].rm = rm, ![h].doc = data], h,
               "delete", CHECKPOINTS_DIR, CheckpointFile(Get(Head(rm), KId).n), Null)
    ELSE SaveCheckpoints([tl EXCEPT ![h].pc = "cp.index", ![h].rm = <<>>], h, data)

\* checkpoint_save: the state is written; the checkpoint is pushed with an
\* empty state, and with more than MAX_CHECKPOINTS the oldest are spliced off
\* the index and their data deleted
CheckpointSaveWritten(h) ==
    /\ Resumed(h, "cp.data")
    /\ IF Threw(h) THEN Return(h, "failed", Reply("error", Null))
       ELSE LET checkpoint == Map(<<Member(KId, Num(tools[h].key)), Member(KState, Map(<<>>))>>)
                pushed == Append(Get(tools[h].doc, KCheckpoints).e, checkpoint)
                over == Len(pushed) - cfg.MAX_CHECKPOINTS
                toRemove == IF over > 0 THEN SubSeq(pushed, 1, over) ELSE <<>>
                left == IF over > 0 THEN SubSeq(pushed, over + 1, Len(pushed)) ELSE pushed
            IN PruneThenSave(tools, h, toRemove, Set(tools[h].doc, KCheckpoints, List(left)))
    /\ UNCHANGED <<files, now, enableBackup, faults, crashes, cfg>>

\* checkpoint_save: one delete is over, whatever its outcome (.catch(() => {}))
CheckpointSavePruned(h) ==
    /\ Resumed(h, "cp.prune")
    /\ PruneThenSave(tools, h, Tail(tools[h].rm), tools[h].doc)
    /\ UNCHANGED <<files, now, enableBackup, faults, crashes, cfg>>

\* checkpoint_save: the index is saved
CheckpointSaveSaved(h) ==
    /\ Resumed(h, "cp.index")
    /\ IF Threw(h) THEN Return(h, "failed", Reply("error", Null))
       ELSE Return(h, "done", Reply("saved", Num(tools[h].key)))
    /\ UNCHANGED <<files, now, enableBackup, faults, crashes, cfg>>

\* checkpoint_delete({id}), whenever it is called: up to the await of
\* getCheckpointStore()
CheckpointDeleteStart(max, id) ==
    /\ Len(tools) < max
    /\ LET h == Len(tools) + 1
           t == [NewTool("checkpoint_delete", id, Null, Undefined) EXCEPT !.pc = "del.load"]
       IN Await(Append(tools, t), h, "read", CHECKPOINTS_DIR, INDEX_FILE, CheckpointDefault)
    /\ UNCHANGED <<files, microtasks, now, enableBackup, faults, crashes, cfg>>

\* checkpoint_delete: the index is loaded; a checkpoint of this id is spliced
\* off and the index saved
CheckpointDeleteLoaded(h) ==
    /\ Resumed(h, "del.load")
    /\ IF Threw(h) THEN Return(h, "failed", Reply("error", Null))
       ELSE LET checkpointStore == WithVersion(Awaited(h).v)
                cps == Get(checkpointStore, KCheckpoints).e
                found == {k \in 1..Len(cps) : Get(cps[k], KId).n = tools[h].key}
                index == CHOOSE k \in found : \A j \in found : k <= j
                left == SubSeq(cps, 1, index - 1) \o SubSeq(cps, index + 1, Len(cps))
            IN IF found = {} THEN Return(h, "done", Reply("not found", Null))
               ELSE SaveCheckpoints([tools EXCEPT ![h].pc = "del.index"], h,
                                    Set(checkpointStore, KCheckpoints, List(left)))
    /\ UNCHANGED <<files, now, enableBackup, faults, crashes, cfg>>

\* checkpoint_delete: the index is saved; the data is deleted
CheckpointDeleteSaved(h) ==
    /\ Resumed(h, "del.index")
    /\ IF Threw(h) THEN Return(h, "failed", Reply("error", Null))
       ELSE Await([tools EXCEPT ![h].pc = "del.data"], h,
                  "delete", CHECKPOINTS_DIR, CheckpointFile(tools[h].key), Null)
    /\ UNCHANGED <<files, now, enableBackup, faults, crashes, cfg>>

\* checkpoint_delete: the data is deleted
CheckpointDeleteDone(h) ==
    /\ Resumed(h, "del.data")
    /\ IF Threw(h) THEN Return(h, "failed", Reply("error", Null))
       ELSE Return(h, "done", Reply("deleted", Num(tools[h].key)))
    /\ UNCHANGED <<files, now, enableBackup, faults, crashes, cfg>>

(* SpecCp: clients call checkpoint_save and checkpoint_delete at any time,  *)
(* on a data directory that holds checkpoint 0; any fs call of a write or a *)
(* delete may fail and the process may crash; MAX_CHECKPOINTS is 1 or more  *)
OldCheckpoint == Map(<<Member(KId, Num(0)), Member(KState, Map(<<>>))>>)
InitCpFiles ==
    Aged(getFilePath(CHECKPOINTS_DIR, INDEX_FILE),
         Stringify(Set(CheckpointDefault, KCheckpoints, List(<<OldCheckpoint>>))))
    @@ [n \in {Target(getFilePath(CHECKPOINTS_DIR, CheckpointFile(0)))}
          |-> Stringify(Map(<<Member(KValue, Num(0))>>))]
CpIds == {0, 1}

InitSpecCp ==
    /\ files = InitCpFiles
    /\ dirs = DirsUpTo(StoreBase(CHECKPOINTS_DIR))
    /\ InitProc
    /\ enableBackup = TRUE
    /\ \E c \in 1..MaxCeiling : cfg = [DefaultCeilings EXCEPT !.MAX_CHECKPOINTS = c]

\* a request is handled when the process is idle
Idle == microtasks = <<>>

IoStepCp(i) ==
    \/ ReadFileDone(i) \/ ReadFileFail(i)
    \/ UnlinkDone(i) \/ UnlinkFail(i)
    \/ EnsureDirDone(i) \/ AccessDone(i)
    \/ CopyDone(i) \/ CopyFail(i)
    \/ ReaddirDone(i) \/ UnlinkBakDone(i)
    \/ WriteTempDone(i) \/ WriteTempFail(i)
    \/ RenameDone(i) \/ RenameFail(i) \/ CleanupDone(i)

NextCp ==
    \/ Idle /\ CheckpointSaveStart(MaxCpCalls)
    \/ \E id \in CpIds : Idle /\ CheckpointDeleteStart(MaxCpCalls, id)
    \/ \E h \in DOMAIN tools : CheckpointSaveLoaded(h) \/ CheckpointSaveWritten(h)
    \/ \E h \in DOMAIN tools : CheckpointSavePruned(h) \/ CheckpointSaveSaved(h)
    \/ \E h \in DOMAIN tools : CheckpointDeleteLoaded(h) \/ CheckpointDeleteSaved(h)
    \/ \E h \in DOMAIN tools : CheckpointDeleteDone(h)
    \/ Wake
    \/ \E i \in Ids : IoStepCp(i)
    \/ Crash

SpecCp == InitSpecCp /\ [][NextCp]_vars

\* handler h, its record being tl, calls store.exists(fname) and awaits it:
\* exists() takes no lock, it runs up to its fsp.access
AwaitExists(tl, h, store, fname) ==
    /\ ops' = Append(ops, [NewOp("exists", store, fname, Null) EXCEPT !.pc = "exists"])
    /\ dirs' = dirs \cup DirsUpTo(StoreBase(store))
    /\ tools' = [tl EXCEPT ![h].op = Len(ops) + 1]
    /\ UNCHANGED fileLocks

\* fsp.access of exists() has settled: true if the file is there, false if not
ExistsDone(i) ==
    /\ IoReady(i, "exists")
    /\ ops' = [ops EXCEPT ![i].pc = "done",
                          ![i].res = [st |-> IF Has(files, Target(ops[i].path))
                                             THEN "true" ELSE "false", v |-> Default]]
    /\ microtasks' = microtasks \o <<[t |-> "cont", op |-> i]>>
    /\ UNCHANGED <<files, dirs, fileLocks, now, enableBackup, faults, crashes, tools, cfg>>

\* faulty variant: the first checkpoint of the index
LatestIsFirst(cps) == cps[1]

\* checkpoint_load without id or name: the last checkpoint of the index
Latest(cps) == cps[Len(cps)]

\* what checkpoint_load returns of a checkpoint: its index entry with the
\* state that loadCheckpointData() gave
Loaded(checkpoint, stateData) == Set(checkpoint, KState, stateData)

\* checkpoint_load({}), without id or name: up to the await of
\* getCheckpointStore()
CheckpointLoadCall(max) ==
    /\ Len(tools) < max
    /\ ClientRuns
    /\ LET h == Len(tools) + 1
           t == [NewTool("checkpoint_load", 0, Null, Undefined) EXCEPT !.pc = "load.index"]
       IN Await(Append(tools, t), h, "read", CHECKPOINTS_DIR, INDEX_FILE, CheckpointDefault)
    /\ UNCHANGED <<files, microtasks, now, enableBackup, faults, crashes, cfg>>

\* checkpoint_load: the index is loaded; without checkpoints: not found;
\* otherwise loadCheckpointData(id) of the latest, up to the await of exists()
CheckpointLoadLoaded(h) ==
    /\ Resumed(h, "load.index")
    /\ IF Threw(h) THEN Return(h, "failed", Reply("error", Null))
       ELSE LET cps == Get(WithVersion(Awaited(h).v), KCheckpoints).e
            IN IF cps = <<>> THEN Return(h, "done", Reply("not found", Null))
               ELSE AwaitExists([tools EXCEPT ![h].pc = "load.exists", ![h].doc = Latest(cps)],
                                h, CHECKPOINTS_DIR, CheckpointFile(Get(Latest(cps), KId).n))
    /\ UNCHANGED <<files, now, enableBackup, faults, crashes, cfg>>

\* loadCheckpointData: the data is there and is read, or it is not: null
CheckpointLoadExists(h) ==
    /\ Resumed(h, "load.exists")
    /\ IF Awaited(h).st = "true"
       THEN Await([tools EXCEPT ![h].pc = "load.data"], h, "read", CHECKPOINTS_DIR,
                  CheckpointFile(Get(tools[h].doc, KId).n), Map(<<>>))
       ELSE Return(h, "done", Reply("loaded", Loaded(tools[h].doc, Null)))
    /\ UNCHANGED <<files, now, enableBackup, faults, crashes, cfg>>

\* checkpoint_load: the data is read
CheckpointLoadRead(h) ==
    /\ Resumed(h, "load.data")
    /\ IF Threw(h) THEN Return(h, "failed", Reply("error", Null))
       ELSE Return(h, "done", Reply("loaded", Loaded(tools[h].doc, Awaited(h).v)))
    /\ UNCHANGED <<files, now, enableBackup, faults, crashes, cfg>>

(* SpecLoad: a client that awaits each call saves and loads checkpoints, on *)
(* a data directory that holds checkpoint 0; MAX_CHECKPOINTS is 1 or more   *)
InitSpecLoad ==
    /\ files = InitCpFiles
    /\ dirs = DirsUpTo(StoreBase(CHECKPOINTS_DIR))
    /\ InitProc
    /\ enableBackup = TRUE
    /\ \E c \in 1..MaxCeiling : cfg = [DefaultCeilings EXCEPT !.MAX_CHECKPOINTS = c]

NextLoad ==
    \/ CheckpointSaveCall(MaxLoadCalls)
    \/ CheckpointLoadCall(MaxLoadCalls)
    \/ \E h \in DOMAIN tools : CheckpointSaveLoaded(h) \/ CheckpointSaveWritten(h)
    \/ \E h \in DOMAIN tools : CheckpointSavePruned(h) \/ CheckpointSaveSaved(h)
    \/ \E h \in DOMAIN tools : CheckpointLoadLoaded(h) \/ CheckpointLoadExists(h)
    \/ \E h \in DOMAIN tools : CheckpointLoadRead(h)
    \/ \E i \in Ids : IoStepRT(i) \/ ExistsDone(i)

SpecLoad == InitSpecLoad /\ [][NextLoad]_vars

(* SpecPrune: a client that awaits each call saves checkpoints, on a data   *)
(* directory that holds checkpoint 0; MAX_CHECKPOINTS is 0 or more          *)
InitSpecPrune ==
    /\ files = InitCpFiles
    /\ dirs = DirsUpTo(StoreBase(CHECKPOINTS_DIR))
    /\ InitProc
    /\ enableBackup = TRUE
    /\ \E c \in 0..MaxCeiling : cfg = [DefaultCeilings EXCEPT !.MAX_CHECKPOINTS = c]

NextPrune ==
    \/ CheckpointSaveCall(MaxPruneCalls)
    \/ \E h \in DOMAIN tools : CheckpointSaveLoaded(h) \/ CheckpointSaveWritten(h)
    \/ \E h \in DOMAIN tools : CheckpointSavePruned(h) \/ CheckpointSaveSaved(h)
    \/ \E i \in Ids : IoStepRT(i)

SpecPrune == InitSpecPrune /\ [][NextPrune]_vars

(* ------------------------------ summaries ------------------------------- *)
SUMMARIES_DIR == "summaries"
\* { version: STORAGE_VERSION, summaries: [] }
SummaryDefault ==
    Map(<<Member(KVersion, Num(STORAGE_VERSION)), Member(KSummaries, List(<<>>))>>)

\* faulty variant: the oldest summaries are kept
TrimmedKeepOldest(data) ==
    LET d == Set(data, KVersion, Num(STORAGE_VERSION))
        e == Get(d, KSummaries).e
    IN IF Len(e) > cfg.MAX_SUMMARIES
       THEN Set(d, KSummaries, List(SubSeq(e, 1, cfg.MAX_SUMMARIES))) ELSE d

\* saveSummaryStore(data), the document it writes: more than MAX_SUMMARIES
\* summaries are cut to summaries.slice(-MAX_SUMMARIES)
Trimmed(data) ==
    LET d == Set(data, KVersion, Num(STORAGE_VERSION))
        e == Get(d, KSummaries).e
    IN IF Len(e) > cfg.MAX_SUMMARIES
       THEN Set(d, KSummaries, List(Slice(e, 0 - cfg.MAX_SUMMARIES))) ELSE d

\* saveSummaryStore(data) up to its await
SaveSummaries(tl, h, data) ==
    Await([tl EXCEPT ![h].doc = Trimmed(data)], h,
          "write", SUMMARIES_DIR, INDEX_FILE, Trimmed(data))

\* context_summarize({text}): up to the await of getSummaryStore()
SummarizeCall(max) ==
    /\ Len(tools) < max
    /\ ClientRuns
    /\ LET h == Len(tools) + 1
           t == [NewTool("context_summarize", h, Null, Undefined) EXCEPT !.pc = "sum.load"]
       IN Await(Append(tools, t), h, "read", SUMMARIES_DIR, INDEX_FILE, SummaryDefault)
    /\ UNCHANGED <<files, microtasks, now, enableBackup, faults, crashes, cfg>>

\* context_summarize: the store is loaded; the summary is pushed and the
\* store saved
SummarizeLoaded(h) ==
    /\ Resumed(h, "sum.load")
    /\ IF Threw(h) THEN Return(h, "failed", Reply("error", Null))
       ELSE LET store == WithVersion(Awaited(h).v)
                summary == Map(<<Member(KId, Num(tools[h].key))>>)
                pushed == Set(store, KSummaries, List(Append(Get(store, KSummaries).e, summary)))
            IN SaveSummaries([tools EXCEPT ![h].pc = "sum.save"], h, pushed)
    /\ UNCHANGED <<files, now, enableBackup, faults, crashes, cfg>>

\* context_summarize, context_merge_summaries: the store is saved
SummarySaved(h) ==
    /\ \/ Resumed(h, "sum.save")
       \/ Resumed(h, "merge.save")
    /\ IF Threw(h) THEN Return(h, "failed", Reply("error", Null))
       ELSE Return(h, "done", Reply("saved", Num(tools[h].key)))
    /\ UNCHANGED <<files, now, enableBackup, faults, crashes, cfg>>

\* context_merge_summaries({ids}): up to the await of getSummaryStore()
MergeSummariesCall(max, ids) ==
    /\ Len(tools) < max
    /\ ClientRuns
    /\ LET h == Len(tools) + 1
           t == [NewTool("context_merge_summaries", h, Null, Undefined)
                    EXCEPT !.pc = "merge.load", !.ids = ids]
       IN Await(Append(tools, t), h, "read", SUMMARIES_DIR, INDEX_FILE, SummaryDefault)
    /\ UNCHANGED <<files, microtasks, now, enableBackup, faults, crashes, cfg>>

\* context_merge_summaries: the store is loaded; with no summary of these
\* ids nothing is written; otherwise the merged summary is pushed and the
\* store saved
MergeSummariesLoaded(h) ==
    /\ Resumed(h, "merge.load")
    /\ IF Threw(h) THEN Return(h, "failed", Reply("error", Null))
       ELSE LET store == WithVersion(Awaited(h).v)
                summaries == SelectSeq(Get(store, KSummaries).e,
                                       LAMBDA x : Get(x, KId).n \in tools[h].ids)
                merged == Map(<<Member(KId, Num(tools[h].key))>>)
                pushed == Set(store, KSummaries, List(Append(Get(store, KSummaries).e, merged)))
            IN IF summaries = <<>> THEN Return(h, "done", Reply("no summaries", Null))
               ELSE SaveSummaries([tools EXCEPT ![h].pc = "merge.save"], h, pushed)
    /\ UNCHANGED <<files, now, enableBackup, faults, crashes, cfg>>

(* SpecSum: a client that awaits each call summarizes and merges summaries; *)
(* MAX_SUMMARIES is 1 or more, as the default is                            *)
InitSpecSum ==
    /\ files = InitTrackerFile
    /\ dirs = DirsUpTo(BasePath)
    /\ InitProc
    /\ enableBackup = TRUE
    /\ \E c \in 1..MaxCeiling : cfg = [DefaultCeilings EXCEPT !.MAX_SUMMARIES = c]

NextSum ==
    \/ SummarizeCall(MaxSumCalls)
    \/ \E id \in 1..MaxSumCalls : MergeSummariesCall(MaxSumCalls, {id})
    \/ \E h \in DOMAIN tools : SummarizeLoaded(h) \/ MergeSummariesLoaded(h) \/ SummarySaved(h)
    \/ \E i \in Ids : IoStepRW(i)

SpecSum == InitSpecSum /\ [][NextSum]_vars

(* ------------------------------- session -------------------------------- *)
\* the name detectProject(cwd) finds
ProjectName == Str(1)

\* the calls of calls, started one after the other: each runs up to its
\* first await; r: the operations and the lock table
RECURSIVE Started(_, _)
Started(r, calls) ==
    IF calls = <<>> THEN r
    ELSE LET c == Head(calls)
             o == Append(r.ops, NewOp(c.kind, c.store, c.fname, c.v))
         IN Started(withFileLock(o, r.locks, Len(o)), Tail(calls))

ReadOf(store, fname, d) == [kind |-> "read", store |-> store, fname |-> fname, v |-> d]

\* handler h, its record being tl, awaits Promise.all of the calls
AwaitAll(tl, h, calls) ==
    LET r == Started([ops |-> ops, locks |-> fileLocks], calls)
    IN /\ ops' = r.ops
       /\ fileLocks' = r.locks
       /\ dirs' = dirs \cup UNION {DirsUpTo(StoreBase(calls[k].store)) : k \in DOMAIN calls}
       /\ tools' = [tl EXCEPT ![h].pend = (Len(ops) + 1)..(Len(ops) + Len(calls))]

\* Promise.all([getCheckpointLatest(), getTrackerStatus(), getMemoryList()]):
\* each up to its read
LoadAll(tl, h) ==
    AwaitAll([tl EXCEPT ![h].pc = "init.all"], h,
             << ReadOf(CHECKPOINTS_DIR, INDEX_FILE, Map(<<Member(KCheckpoints, List(<<>>))>>)),
                ReadOf("root", TRACKER_FILE, Map(<<Member(KEntries, List(<<>>))>>)),
                ReadOf("root", MEMORY_FILE, Map(<<Member(KEntries, Map(<<>>))>>)) >>)

\* getMemoryList(), its store loaded: the entries without ttl and those
\* with Date.now() <= new Date(e.createdAt).getTime() + e.ttl
getMemoryList(memStore, clock) ==
    LET entries == SelectSeq(Values(Get(memStore, KEntries)),
                             LAMBDA e : IF Falsy(Get(e, KTtl)) THEN TRUE
                                        ELSE clock <= GetTime(Get(e, KCreatedAt)) + Get(e, KTtl).n)
    IN List([k \in 1..Len(entries) |-> Listed(entries[k])])

\* session_init({cwd}): up to the await of getMemoryStore() in
\* cleanupExpiredMemories()
SessionInitCall(max) ==
    /\ Len(tools) < max
    /\ ClientRuns
    /\ LET h == Len(tools) + 1
           t == [NewTool("session_init", h, Null, Undefined) EXCEPT !.pc = "init.clean"]
       IN Await(Append(tools, t), h, "read", "root", MEMORY_FILE, MemoryDefault)
    /\ UNCHANGED <<files, microtasks, now, enableBackup, faults, crashes, cfg>>

\* cleanupExpiredMemories: the store is loaded; the expired entries are
\* deleted and, if there were any, the store is saved
SessionInitCleaned(h) ==
    /\ Resumed(h, "init.clean")
    /\ IF Threw(h) THEN Return(h, "failed", Reply("error", Null))
       ELSE LET memStore == WithVersion(Awaited(h).v)
                removed == Count(memStore) - Count(Swept(memStore, now))
            IN IF removed > 0
               THEN SaveMemory([tools EXCEPT ![h].pc = "init.cleansave", ![h].removed = removed,
                                             ![h].doc = Swept(memStore, now)],
                               h, Swept(memStore, now))
               ELSE LoadAll(tools, h)
    /\ UNCHANGED <<files, now, enableBackup, faults, crashes, cfg>>

\* cleanupExpiredMemories: the store is saved
SessionInitCleanSaved(h) ==
    /\ Resumed(h, "init.cleansave")
    /\ IF Threw(h) THEN Return(h, "failed", Reply("error", Null))
       ELSE LoadAll(tools, h)
    /\ UNCHANGED <<files, now, enableBackup, faults, crashes, cfg>>

\* session_init: one of the reads of Promise.all is over.  The index of the
\* checkpoints, if it has any, is followed by the read of the latest one's
\* data; the tracker gives its projectName (kept in doc); once all are over,
\* a tracker without projectName is read again to be given one.
SessionInitGot(h) ==
    /\ tools[h].pc = "init.all"
    /\ \E i \in tools[h].pend :
          /\ microtasks # <<>> /\ Head(microtasks) = [t |-> "cont", op |-> i]
          /\ microtasks' = Tail(microtasks)
          /\ LET o == ops[i]
                 threw == o.pc = "failed"
                 isIndex == o.store = CHECKPOINTS_DIR /\ o.fname = INDEX_FILE
                 isTracker == o.fname = TRACKER_FILE
                 isMemory == o.fname = MEMORY_FILE
                 cps == Get(o.res.v, KCheckpoints).e
                 name == IF isTracker /\ ~threw THEN Get(o.res.v, KProjectName) ELSE tools[h].doc
                 left == tools[h].pend \ {i}
                 tl == [tools EXCEPT ![h].doc = name, ![h].pend = left,
                                     ![h].memories = IF isMemory /\ ~threw
                                                     THEN getMemoryList(o.res.v, now) ELSE @,
                                     ![h].out = IF threw THEN Reply("error", Null) ELSE @]
             IN IF isIndex /\ ~threw /\ cps # <<>>
                THEN Await([tl EXCEPT ![h].pend = left \cup {Len(ops) + 1}], h, "read",
                           CHECKPOINTS_DIR, CheckpointFile(Get(cps[Len(cps)], KId).n), Map(<<>>))
                ELSE IF left # {}
                THEN tools' = tl /\ UNCHANGED <<ops, fileLocks, dirs>>
                ELSE IF tl[h].out.st = "error"
                THEN Return(h, "failed", Reply("error", Null))
                ELSE IF Falsy(name)
                THEN Await([tl EXCEPT ![h].pc = "init.name"], h, "read", "root", TRACKER_FILE,
                           Map(<<Member(KEntries, List(<<>>))>>))
                ELSE Return(h, "done", Reply("initialized", name))
    /\ UNCHANGED <<files, now, enableBackup, faults, crashes, cfg>>

\* session_init: the tracker is read again; it is given the project's name
\* and written as it is
SessionInitNamed(h) ==
    /\ Resumed(h, "init.name")
    /\ IF Threw(h) THEN Return(h, "failed", Reply("error", Null))
       ELSE Await([tools EXCEPT ![h].pc = "init.named"], h, "write", "root", TRACKER_FILE,
                  Set(Awaited(h).v, KProjectName, ProjectName))
    /\ UNCHANGED <<files, now, enableBackup, faults, crashes, cfg>>

\* session_init: the tracker is written
SessionInitDone(h) ==
    /\ Resumed(h, "init.named")
    /\ IF Threw(h) THEN Return(h, "failed", Reply("error", Null))
       ELSE Return(h, "done", Reply("initialized", ProjectName))
    /\ UNCHANGED <<files, now, enableBackup, faults, crashes, cfg>>

(* SpecSess: a client that awaits each tool call calls session_init,        *)
(* memory_list and memory_cleanup while time passes, on a memory.json that  *)
(* holds an entry created 2 ms ago and updated 1 ms ago with a ttl of 2 ms, *)
(* and an entry set 1 ms ago with a ttl of 0                                *)
ZeroEntry ==
    Map(<<Member(KKey, Str(2)), Member(KValue, Num(0)),
          Member(KCreatedAt, ToISOString(ClockStart - 1)),
          Member(KUpdatedAt, ToISOString(ClockStart - 1)), Member(KTtl, Num(0))>>)
InitSessFiles ==
    Aged(getFilePath("root", MEMORY_FILE),
         Stringify(Set(MemoryDefault, KEntries,
                       Map(<<Member(1, OldEntry), Member(2, ZeroEntry)>>))))

InitSpecSess ==
    /\ files = InitSessFiles
    /\ dirs = DirsUpTo(BasePath)
    /\ InitMem
    /\ enableBackup = TRUE

NextSess ==
    \/ SessionInitCall(MaxSessCalls)
    \/ MemoryListCall(MaxSessCalls)
    \/ MemoryCleanupCall(MaxSessCalls)
    \/ \E h \in DOMAIN tools : SessionInitCleaned(h) \/ SessionInitCleanSaved(h)
    \/ \E h \in DOMAIN tools : SessionInitGot(h) \/ SessionInitNamed(h) \/ SessionInitDone(h)
    \/ \E h \in DOMAIN tools : MemoryListLoaded(h)
    \/ \E h \in DOMAIN tools : MemoryCleanupLoaded(h) \/ MemoryCleanupSaved(h)
    \/ \E i \in Ids : IoStepRW(i)
    \/ Elapse

SpecSess == InitSpecSess /\ [][NextSess]_vars

(* SpecCeil: a client that awaits each tool call uses the tracker, the      *)
(* checkpoints, the summaries and session_init, on a data directory that    *)
(* holds an empty tracker.json and a memory.json with an expired entry; the *)
(* ceilings are configured with any values from 0 up, ROTATE_KEEP not above *)
(* MAX_ENTRIES                                                              *)
ExpiredEntry ==
    Map(<<Member(KKey, Str(1)), Member(KValue, Num(0)),
          Member(KCreatedAt, ToISOString(ClockStart - 3)),
          Member(KUpdatedAt, ToISOString(ClockStart - 3)), Member(KTtl, Num(2))>>)
InitCeilFiles ==
    InitTrackerFile @@
    Aged(getFilePath("root", MEMORY_FILE),
         Stringify(Set(MemoryDefault, KEntries, Map(<<Member(1, ExpiredEntry)>>))))
Ceilings ==
    { [MAX_ENTRIES |-> m, ROTATE_KEEP |-> k, MAX_CHECKPOINTS |-> c, MAX_SUMMARIES |-> s] :
        m \in 0..MaxCeiling, k \in 0..MaxCeiling,
        c \in 0..MaxCeiling, s \in 0..MaxCeiling }

InitSpecCeil ==
    /\ files = InitCeilFiles
    /\ dirs = DirsUpTo(BasePath)
    /\ InitProc
    /\ enableBackup = TRUE
    /\ cfg \in {c \in Ceilings : c.ROTATE_KEEP <= c.MAX_ENTRIES}

NextCeil ==
    \/ TrackerLogCall(MaxCeilCalls)
    \/ \E k \in KeepCounts, d \in BOOLEAN : TrackerCleanupCall(MaxCeilCalls, k, d)
    \/ CheckpointSaveCall(MaxCeilCalls)
    \/ SummarizeCall(MaxCeilCalls)
    \/ \E id \in 1..MaxCeilCalls : MergeSummariesCall(MaxCeilCalls, {id})
    \/ SessionInitCall(MaxCeilCalls)
    \/ \E h \in DOMAIN tools : TrackerLogLoaded(h) \/ TrackerLogSaved(h)
    \/ \E h \in DOMAIN tools : TrackerCleanupLoaded(h) \/ TrackerCleanupSaved(h)
    \/ \E h \in DOMAIN tools : CheckpointSaveLoaded(h) \/ CheckpointSaveWritten(h)
    \/ \E h \in DOMAIN tools : CheckpointSavePruned(h) \/ CheckpointSaveSaved(h)
    \/ \E h \in DOMAIN tools : SummarizeLoaded(h) \/ MergeSummariesLoaded(h) \/ SummarySaved(h)
    \/ \E h \in DOMAIN tools : SessionInitCleaned(h) \/ SessionInitCleanSaved(h)
    \/ \E h \in DOMAIN tools : SessionInitGot(h) \/ SessionInitNamed(h) \/ SessionInitDone(h)
    \/ \E i \in Ids : IoStepRT(i)

SpecCeil == InitSpecCeil /\ [][NextCeil]_vars

(* SpecVer: the same client with the default ceilings, on a data directory
   that holds the memory.json with an expired entry and, or not, an empty
   tracker.json *)
InitSpecVer ==
    /\ files \in {InitCeilFiles,
                  Aged(getFilePath("root", MEMORY_FILE),
                       Stringify(Set(MemoryDefault, KEntries, Map(<<Member(1, ExpiredEntry)>>))))}
    /\ dirs = DirsUpTo(BasePath)
    /\ InitMem
    /\ enableBackup = TRUE

SpecVer == InitSpecVer /\ [][NextCeil]_vars

(* SpecMemConc: memory_get and memory_set requests on one key handled as they
   arrive, on a memory.json that holds an expired entry for that key; one
   memory_set is called in a run *)
InitSpecMemConc ==
    /\ files = Aged(getFilePath("root", MEMORY_FILE),
                    Stringify(Set(MemoryDefault, KEntries, Map(<<Member(1, ExpiredEntry)>>))))
    /\ dirs = DirsUpTo(BasePath)
    /\ InitMem
    /\ enableBackup = TRUE

SetCalled == \E h \in DOMAIN tools : tools[h].name = "memory_set"

NextMemConc ==
    \/ microtasks = <<>> /\ MemoryGetStart(MaxMemConcCalls, 1)
    \/ microtasks = <<>> /\ ~SetCalled /\ MemorySetStart(MaxMemConcCalls, 1, Undefined)
    \/ \E h \in DOMAIN tools : MemorySetLoaded(h) \/ MemorySetSaved(h)
    \/ \E h \in DOMAIN tools : MemoryGetLoaded(h) \/ MemoryGetSaved(h)
    \/ Wake
    \/ \E i \in Ids : IoStepRW(i)

SpecMemConc == InitSpecMemConc /\ [][NextMemConc]_vars

(* ----------------------------- memory_clear ----------------------------- *)
\* entry.tags.includes(tag)
Includes(list, v) == \E j \in 1..Len(list.e) : list.e[j] = v
\* tags.some(tag => entry.tags.includes(tag))
SomeTag(tags, entry) == \E j \in 1..Len(tags.e) : Includes(Get(entry, KTags), tags.e[j])
\* memory_clear, its toDelete: the keys of the entries that carry one of the
\* tags, or every key when no tag is given
ToDelete(memStore, tags) ==
    LET members == Get(memStore, KEntries).e
        hit == IF tags.t = "arr" /\ Len(tags.e) > 0
               THEN SelectSeq(members, LAMBDA m : SomeTag(tags, m.e[1]))
               ELSE members
    IN [j \in 1..Len(hit) |-> hit[j].n]
\* entry.tags.includes throws on an entry that has no tags array
TagsThrow(memStore, tags) ==
    /\ tags.t = "arr" /\ Len(tags.e) > 0
    /\ \E j \in 1..Len(Get(memStore, KEntries).e) :
          Get(Get(memStore, KEntries).e[j].e[1], KTags).t # "arr"
\* the store after `delete memStore.entries[key]` for each key of toDelete
Cleared(memStore, keys) ==
    Set(memStore, KEntries,
        Map(SelectSeq(Get(memStore, KEntries).e,
                      LAMBDA m : \A j \in 1..Len(keys) : keys[j] # m.n)))

\* memory_clear({tags, dryRun}): up to the await of getMemoryStore(); the
\* record keeps the tags argument in val
MemoryClearCall(max, tags, dryRun) ==
    /\ Len(tools) < max
    /\ ClientRuns
    /\ LET h == Len(tools) + 1
           t == [NewTool("memory_clear", 0, tags, Undefined)
                    EXCEPT !.pc = "clear.load", !.dry = dryRun]
       IN Await(Append(tools, t), h, "read", "root", MEMORY_FILE, MemoryDefault)
    /\ UNCHANGED <<files, microtasks, now, enableBackup, faults, crashes, cfg>>

\* memory_clear: the store is loaded; a dry run reports toDelete; otherwise
\* the keys are deleted and the store is saved
MemoryClearLoaded(h) ==
    /\ Resumed(h, "clear.load")
    /\ IF Threw(h) THEN Return(h, "failed", Reply("error", Null))
       ELSE LET memStore == WithVersion(Awaited(h).v)
                toDelete == ToDelete(memStore, tools[h].val)
            IN IF TagsThrow(memStore, tools[h].val)
               THEN Return(h, "failed", Reply("error", Null))
               ELSE IF tools[h].dry
               THEN Return(h, "done",
                           Reply("dry run", List([j \in 1..Len(toDelete) |-> Str(toDelete[j])])))
               ELSE SaveMemory([tools EXCEPT ![h].pc = "clear.save",
                                             ![h].removed = Len(toDelete),
                                             ![h].doc = Cleared(memStore, toDelete)],
                               h, Cleared(memStore, toDelete))
    /\ UNCHANGED <<files, now, enableBackup, faults, crashes, cfg>>

\* memory_clear: the store is saved
MemoryClearSaved(h) ==
    /\ Resumed(h, "clear.save")
    /\ IF Threw(h) THEN Return(h, "failed", Reply("error", Null))
       ELSE Return(h, "done", Reply("cleared", Num(tools[h].removed)))
    /\ UNCHANGED <<files, now, enableBackup, faults, crashes, cfg>>

(* SpecDry: a client that awaits each call logs to the tracker, and previews
   or performs tracker_cleanup and memory_clear, on a memory.json that holds
   an entry tagged 1 and an entry without tags *)
TaggedEntry(key, tags) ==
    Map(<<Member(KKey, Str(key)), Member(KValue, Num(0)), Member(KTags, List(tags)),
          Member(KCreatedAt, ToISOString(ClockStart - 1)),
          Member(KUpdatedAt, ToISOString(ClockStart - 1))>>)
TagArgs == {Undefined, List(<<Str(1)>>)}

InitSpecDry ==
    /\ files = InitTrackerFile @@
               Aged(getFilePath("root", MEMORY_FILE),
                    Stringify(Set(MemoryDefault, KEntries,
                                  Map(<<Member(1, TaggedEntry(1, <<Str(1)>>)),
                                        Member(2, TaggedEntry(2, <<>>))>>))))
    /\ dirs = DirsUpTo(BasePath)
    /\ InitMem
    /\ enableBackup = TRUE

NextDry ==
    \/ TrackerLogCall(MaxDryCalls)
    \/ \E k \in KeepCounts, d \in BOOLEAN : TrackerCleanupCall(MaxDryCalls, k, d)
    \/ \E t \in TagArgs, d \in BOOLEAN : MemoryClearCall(MaxDryCalls, t, d)
    \/ \E h \in DOMAIN tools : TrackerLogLoaded(h) \/ TrackerLogSaved(h)
    \/ \E h \in DOMAIN tools : TrackerCleanupLoaded(h) \/ TrackerCleanupSaved(h)
    \/ \E h \in DOMAIN tools : MemoryClearLoaded(h) \/ MemoryClearSaved(h)
    \/ \E i \in Ids : IoStepRW(i)

SpecDry == InitSpecDry /\ [][NextDry]_vars


(* ================================ claims =============================== *)
SamePath(i, j) == ops[i].path = ops[j].path
Range(q) == {q[k] : k \in 1..Len(q)}
\* the operations whose resumption is queued
Woken == {microtasks[k].op : k \in {n \in 1..Len(microtasks) : microtasks[n].t = "wake"}}

\* C1: for every path, at most one operation is inside the critical section
\* of withFileLock at any time.
C1_MutualExclusion ==
    \A i, j \in Ids : (i # j /\ InCS(i) /\ InCS(j)) => ~SamePath(i, j)

\* a holder inside its critical section while two others wait for the same path
C1_Witness ==
    \E i \in Ids : InCS(i) /\ Len(ops[i].waitq) >= 2
                   /\ \A j \in Range(ops[i].waitq) : SamePath(i, j)

\* C2: operations on one path enter their critical section in the order of
\* their calls: once a later call is in its critical section (or over), every
\* earlier call on that path is over.
C2_Fifo ==
    \A i, j \in Ids :
        (i < j /\ SamePath(i, j) /\ (InCS(j) \/ Ended(j))) => Ended(i)

\* the lock has just been released with several waiters: the first of them
\* holds it again, the others queue behind it together with a call that the
\* resumed caller makes, and all of them end in call order
C2_Witness ==
    \E h, w \in Ids :
        /\ h < w /\ Ended(h) /\ InCS(w)
        /\ microtasks = <<[t |-> "cont", op |-> h]>>
        /\ Len(ops[w].waitq) >= 2
        /\ ops[w].waitq[Len(ops[w].waitq)] = Len(ops)

\* C3: when the wrapped operation fails the lock is released: a failed
\* operation owns no entry of the lock table, every entry is owned by an
\* operation inside its critical section, and every waiter is either queued
\* behind such an owner or about to be resumed.
C3_ReleasedOnFailure ==
    /\ \A k \in DOMAIN fileLocks : InCS(fileLocks[k])
    /\ \A i \in Ids : ops[i].pc = "failed" => ops[i].waitq = <<>>
    /\ \A j \in Ids : Waiting(j) =>
          \/ j \in Woken
          \/ \E h \in Ids : InCS(h) /\ j \in Range(ops[h].waitq)

\* an operation failed and a later one on the same path has run to its end
C3_Witness ==
    \E i, j \in Ids : /\ i < j /\ SamePath(i, j)
                      /\ ops[i].pc = "failed" /\ ops[j].pc = "done"

\* C4: an operation never waits for an operation on a different path: every
\* waiter is in the queue of a holder of its own path.
C4_NoWaitAcrossPaths ==
    /\ \A h, j \in Ids : j \in Range(ops[h].waitq) => SamePath(h, j)
    /\ \A j \in Ids : Waiting(j) =>
          \/ j \in Woken
          \/ \E h \in Ids : InCS(h) /\ SamePath(h, j) /\ j \in Range(ops[h].waitq)

\* index.json of the sub-store is done while an earlier operation on
\* index.json of the root store is still inside its critical section
C4_Witness ==
    \E h, j \in Ids : /\ h < j /\ InCS(h) /\ ops[j].pc = "done"
                      /\ ops[h].store = "root" /\ ops[j].store = "sub"
                      /\ ops[h].fname = ops[j].fname


\* The target p after the first k calls, had they run one at a time in call
\* order, each with the outcome it had: a failed call changes nothing.
RECURSIVE InOrder(_, _)
InOrder(p, k) ==
    IF k = 0
    THEN On(InitFiles, p)
    ELSE LET prev == InOrder(p, k - 1)
             o == ops[k]
             existing == IF prev.has /\ Parses(prev.c) /\ ~o.ioErr
                         THEN Parse(prev.c) ELSE List(<<>>)
         IN IF o.path # p \/ o.pc # "done" THEN prev
            ELSE CASE o.kind = "read" -> prev
                   [] o.kind = "write" -> [has |-> TRUE, c |-> Stringify(o.arg)]
                   [] o.kind = "append" ->
                        [has |-> TRUE, c |-> Stringify(List(existing.e \o o.arg.e))]
                   [] o.kind = "delete" -> Absent

\* C6: the effects of a call are complete before a later call on the same
\* file starts: a read returns what the calls before it left (the value of the
\* last write before it, never older content, the default or a partial file),
\* and when all calls are over the file holds what the calls leave in call order.
C6_CallOrder ==
    /\ \A r \in Ids :
          (ops[r].kind = "read" /\ ops[r].pc = "done") =>
             LET prev == InOrder(ops[r].path, r - 1)
             IN ops[r].res = Ok(IF prev.has THEN Parse(prev.c) ELSE Default)
    /\ (\A i \in Ids : Ended(i)) =>
          \A i \in Ids : On(files, ops[i].path) = InOrder(ops[i].path, Len(ops))

\* a read between two writes returned the value of the first, and the file
\* holds the value of the second
C6_Witness ==
    \E w, r, x \in Ids :
        /\ w < r /\ r < x /\ \A i \in Ids : Ended(i)
        /\ ops[w].kind = "write" /\ ops[r].kind = "read" /\ ops[x].kind = "write"
        /\ ops[r].res = Ok(ops[w].arg)
        /\ files[Target(ops[x].path)] = Stringify(ops[x].arg)


Targets(d) == {n \in DOMAIN d : n.ext = ""}
Writing(i) == ops[i].kind \in {"write", "append"}

\* C5: the content found at a target path is always a complete one: a step
\* that changes it (a crash included) either removes the file or puts the
\* complete new content of the write that renames its temp file.
C5_AtomicReplace ==
    [][\A n \in Targets(files') :
          \/ n \in Targets(files) /\ files'[n] = files[n]
          \/ \E i \in Ids : /\ Writing(i) /\ ops[i].pc = "rename" /\ n = Target(ops[i].path)
                            /\ files'[n] = Stringify(ops[i].data)]_vars

\* the writer was killed after the temp-file write and before the rename: the
\* complete temp file is on disk and the target still has its old content
C5_Witness ==
    \E i \in Ids, n \in DOMAIN files :
        /\ ops[i].kind = "write" /\ ops[i].pc = "crashed"
        /\ n.ext = "tmp" /\ files[n] = Stringify(ops[i].arg)
        /\ On(files, ops[i].path) = On(InitFiles, ops[i].path)

\* C7 (as claimed): a write that has got to its temp-file write found either
\* an existing file with backups enabled, and then a backup holding exactly
\* that content is on disk, or no file or backups disabled, and then the
\* backups are those it found.
C7_BackupBeforeWrite ==
    \A i \in Ids :
        (ops[i].kind = "write" /\ ops[i].pc \in {"writeTemp", "rename"}) =>
           IF enableBackup /\ ops[i].pre.has
           THEN \E n \in BackupsOf(files, ops[i].path) : files[n] = ops[i].pre.c
           ELSE BackupsOf(files, ops[i].path) = ops[i].pre.baks

\* the versions index.json of the root store had before the k-th of k writes
PriorVersions(k) ==
    [j \in 1..DefaultMaxBackups |-> Stringify(OldVersion(DefaultMaxBackups + 1 - j))]
        \o <<Junk>> \o [j \in 1..(k - 1) |-> Stringify(ops[j].arg)]

\* C8 (as claimed): after N writes in sequence, none of which failed, exactly
\* 3 backups remain and they hold the 3 most recent prior versions.
C8_Rotation ==
    (/\ enableBackup /\ faults = 0 /\ Len(ops) >= 1
     /\ \A i \in Ids : ops[i].kind = "write" /\ ops[i].pc = "done") =>
        LET p == getFilePath(RootIndex[1], RootIndex[2])
            v == PriorVersions(Len(ops))
        IN /\ Cardinality(BackupsOf(files, p)) = DefaultMaxBackups
           /\ {files[n] : n \in BackupsOf(files, p)} =
                 {v[j] : j \in (Len(v) - DefaultMaxBackups + 1)..Len(v)}

C10_ReadMissing ==
    [][\A i \in Ids :
          (ops[i].pc = "readFile" /\ Ended(i)' /\ ~Has(files, Target(ops[i].path))) =>
             /\ ops'[i].pc = "done" /\ ops'[i].res = Ok(ops[i].arg)
             /\ files' = files /\ dirs' = dirs]_vars

\* a read is over with the default and no error, of a file deleted since it
\* was last written
C10_Witness ==
    \E i, j \in Ids :
        /\ ops[i].kind = "delete" /\ ops[i].res.st = "true" /\ i < j /\ SamePath(i, j)
        /\ ops[j].kind = "read" /\ ops[j].pc = "done" /\ ops[j].res = Ok(Default)
        /\ ~Has(files, Target(ops[j].path))

\* C11: a read of a file that exists and does not parse fails with an error:
\* it does not return the default (the outcome of a missing file), and it
\* leaves the disk as it is.
C11_ReadCorrupt ==
    [][\A i \in Ids :
          (/\ ops[i].pc = "readFile" /\ Ended(i)'
           /\ Has(files, Target(ops[i].path)) /\ ~Parses(files[Target(ops[i].path)])) =>
             /\ ops'[i].pc = "failed" /\ ops'[i].res = Err
             /\ ops'[i].res # Ok(ops[i].arg)
             /\ files' = files]_vars

\* a read has failed with no I/O error, the damaged file still in place
C11_Witness ==
    \E i \in Ids :
        /\ ops[i].kind = "read" /\ ops[i].pc = "failed" /\ faults = 0
        /\ Has(files, Target(ops[i].path)) /\ files[Target(ops[i].path)] = Junk

\* C12 (as claimed): no operation replaces the content of an existing file that
\* does not parse as if the file had been empty: an append that found such a
\* file does not rename its temp file over it.
C12_CorruptNotHidden ==
    [][\A i \in Ids :
          (ops[i].kind = "append" /\ ops[i].pc = "rename" /\ ops'[i].pc = "done") =>
             ~(ops[i].pre.has /\ ~Parses(ops[i].pre.c))]_vars

\* C13 (as claimed): when the copyFile of the backup step fails, the write
\* fails with the error.
C13_BackupErrorPropagated ==
    [][\A i \in Ids :
          (ops[i].pc = "copy" /\ faults' = faults + 1) =>
             (ops'[i].pc = "failed" /\ ops'[i].res = Err)]_vars

\* the items of an array found at p on the disk d, none if there is no array
ItemsAt(d, p) ==
    IF On(d, p).has /\ Parses(On(d, p).c) /\ Parse(On(d, p).c).t = "arr"
    THEN Parse(On(d, p).c).e ELSE <<>>

\* C14 (as claimed): when concurrent appends to one file have all completed,
\* the file holds the items it had before followed by every appended item
\* once, in the order of the calls.
C14_AllAppendsTakeEffect ==
    (/\ Len(ops) >= 2
     /\ \A i \in Ids : ops[i].kind = "append" /\ ops[i].pc = "done" /\ SamePath(1, i)) =>
        On(files, ops[1].path) =
           [has |-> TRUE,
            c |-> Stringify(List(ItemsAt(InitFiles, ops[1].path)
                                    \o [i \in Ids |-> ops[i].arg.e[1]]))]

\* C15: a delete returns true exactly when the file was there and it removed
\* it; on a missing file it returns false, throws nothing and changes nothing;
\* after a delete that returned, the file is absent, so that repeated deletes
\* return false.
C15_Delete ==
    [][\A i \in Ids :
          (ops[i].pc = "unlink" /\ Ended(i)') =>
             LET t == Target(ops[i].path) IN
             /\ ops'[i].res.st = "true" <=> (Has(files, t) /\ ~Has(files', t))
             /\ ~Has(files, t) => (/\ ops'[i].pc = "done" /\ ops'[i].res.st = "false"
                                   /\ files' = files)
             /\ ops'[i].pc = "done" => ~Has(files', t)]_vars

\* three deletes of one file are over: the first removed it, the others
\* returned false
C15_Witness ==
    \E i, j, k \in Ids :
        /\ i < j /\ j < k /\ SamePath(i, j) /\ SamePath(j, k)
        /\ ops[i].kind = "delete" /\ ops[i].res.st = "true"
        /\ ops[j].kind = "delete" /\ ops[j].res.st = "false" /\ ops[j].pc = "done"
        /\ ops[k].kind = "delete" /\ ops[k].res.st = "false" /\ ops[k].pc = "done"

\* C16: a read that follows a write of v to the same file, nothing else having
\* been called on the file in between, returns v, whatever its default and
\* whether or not the file was there before the write.
C16_RoundTrip ==
    \A w, r \in Ids :
        (/\ w < r /\ SamePath(w, r)
         /\ ops[w].kind = "write" /\ ops[w].pc = "done"
         /\ ops[r].kind = "read" /\ Ended(r)
         /\ \A k \in (w + 1)..(r - 1) : ~SamePath(w, k)) =>
            (ops[r].pc = "done" /\ ops[r].res = Ok(ops[w].arg))

\* a nested document written to a file that was not there has been read back
\* by a read whose default is another value
C16_Witness ==
    \E w, r \in Ids :
        /\ w < r /\ SamePath(w, r) /\ ops[w].store = "sub"
        /\ ops[w].kind = "write" /\ ops[w].pc = "done"
        /\ ops[w].arg.t = "obj" /\ Len(ops[w].arg.e) = 2
        /\ ops[r].kind = "read" /\ ops[r].arg # ops[w].arg
        /\ ops[r].res = Ok(ops[w].arg)

\* the document a call through store c[1] with file name c[2] is about
DocOf(c) == On(files, getFilePath(c[1], c[2]))
SameDoc(i, j) == ops[i].store = ops[j].store /\ ops[i].fname = ops[j].fname

\* C17: index.json of the sub-store and index.json of the root store are two
\* documents: the content of one changes only by the rename or the unlink of
\* an operation called on that one, and a read returns the value of the last
\* write called on its own document.
C17_SubStoreIsolation ==
    [][/\ \A c \in Calls :
             DocOf(c)' # DocOf(c) =>
                \E i \in Ids : /\ ops[i].store = c[1] /\ ops[i].fname = c[2]
                               /\ ops[i].pc \in {"rename", "unlink"} /\ Ended(i)'
       /\ \A w, r \in Ids :
             (/\ w < r /\ SameDoc(w, r)
              /\ ops'[w].kind = "write" /\ ops'[w].pc = "done"
              /\ ops'[r].kind = "read" /\ ops'[r].pc = "done"
              /\ \A k \in (w + 1)..(r - 1) :
                    SameDoc(w, k) => (ops'[k].kind = "read" \/ ops'[k].pc = "failed")) =>
                ops'[r].res = Ok(ops'[w].arg)]_vars

\* both documents have been written and each holds its own value
C17_Witness ==
    \E i, j \in Ids :
        /\ ops[i].store = "root" /\ ops[j].store = "sub" /\ ops[i].fname = ops[j].fname
        /\ ops[i].kind = "write" /\ ops[i].pc = "done"
        /\ ops[j].kind = "write" /\ ops[j].pc = "done"
        /\ DocOf(RootIndex) = [has |-> TRUE, c |-> Stringify(ops[i].arg)]
        /\ DocOf(SubIndex) = [has |-> TRUE, c |-> Stringify(ops[j].arg)]
        /\ ops[i].arg # ops[j].arg

\* memory.json as it is on the disk d, and its entry of key k
MemoryOn(d) == Parse(d[Target(getFilePath("root", MEMORY_FILE))])
EntryOn(d, k) == Get(Get(MemoryOn(d), KEntries), k)
\* the entry a memory_get resumed by its read finds: it has a ttl t
FoundWithTtl(h) ==
    /\ tools[h].name = "memory_get" /\ tools[h].pc = "get.load" /\ ~Threw(h)
    /\ tools'[h].pc # "get.load"
    /\ HasKey(Get(Awaited(h).v, KEntries), tools[h].key)
    /\ Get(Get(Get(Awaited(h).v, KEntries), tools[h].key), KTtl).t = "num"

\* C18 (as claimed): a memory_get that finds an entry with a ttl t and an
\* update time u returns the entry when now <= u + t; when now > u + t it
\* saves the store without the entry and then reports the entry as expired,
\* the entry being gone from memory.json.
C18_TtlExpiry ==
    [][\A h \in DOMAIN tools :
          /\ FoundWithTtl(h) =>
                LET entry == Get(Get(Awaited(h).v, KEntries), tools[h].key)
                    u == GetTime(Get(entry, KUpdatedAt))
                    t == Get(entry, KTtl).n
                IN IF now <= u + t
                   THEN /\ tools'[h].pc = "done"
                        /\ tools'[h].out = Reply("found", Del(entry, KTtl))
                        /\ Len(ops') = Len(ops)
                   ELSE /\ tools'[h].pc = "get.save"
                        /\ ops'[Len(ops')].kind = "write"
                        /\ ~HasKey(Get(ops'[Len(ops')].arg, KEntries), tools[h].key)
          /\ (tools[h].pc = "get.save" /\ tools'[h].pc = "done") =>
                /\ tools'[h].out = Reply("expired", Null)
                /\ EntryOn(files', tools[h].key) = Undefined]_vars

\* the entries of tracker.json as it is on the disk d
TrackerEntriesOn(d) == Get(Parse(d[Target(getFilePath("root", TRACKER_FILE))]), KEntries).e
\* the last n items of s
LastOf(s, n) == SubSeq(s, Len(s) - n + 1, Len(s))

\* C19: a tracker_log that brings the entries it loaded to more than
\* MAX_ENTRIES writes exactly ROTATE_KEEP entries, the most recent ones in
\* insertion order, the new entry last; one that brings them to MAX_ENTRIES or
\* fewer writes them all; and tracker.json holds what was written once the
\* save is over.
C19_TrackerRotation ==
    [][\A h \in DOMAIN tools :
          /\ (tools[h].pc = "log.load" /\ tools'[h].pc = "log.save") =>
                LET all == Append(Get(LoadedTracker(h), KEntries).e, tools[h].val)
                    written == Get(ops'[Len(ops')].arg, KEntries).e
                IN /\ ops'[Len(ops')].kind = "write"
                   /\ IF Len(all) > cfg.MAX_ENTRIES
                      THEN Len(written) = cfg.ROTATE_KEEP
                           /\ written = LastOf(all, cfg.ROTATE_KEEP)
                      ELSE written = all
          /\ (tools[h].pc = "log.save" /\ tools'[h].pc = "done") =>
                TrackerEntriesOn(files') = Get(tools[h].doc, KEntries).e]_vars

\* a tracker_log found MAX_ENTRIES entries on disk and is saving ROTATE_KEEP
\* of them, fewer than it found, its own entry last
C19_Witness ==
    \E h \in DOMAIN tools :
        /\ tools[h].name = "tracker_log" /\ tools[h].pc = "log.save"
        /\ Len(TrackerEntriesOn(files)) = cfg.MAX_ENTRIES
        /\ cfg.ROTATE_KEEP < cfg.MAX_ENTRIES
        /\ Len(Get(tools[h].doc, KEntries).e) = cfg.ROTATE_KEEP
        /\ Get(tools[h].doc, KEntries).e[cfg.ROTATE_KEEP] = tools[h].val

\* the number of items under key k of the document in file fname of store,
\* as the disk d holds it; 0 without the file
CountOn(d, store, fname, k) ==
    LET p == Target(getFilePath(store, fname))
    IN IF p \in DOMAIN d /\ Parses(d[p]) THEN Len(Get(Parse(d[p]), k).e) ELSE 0

\* C20: whatever the ceilings configured, tracker.json never holds more than
\* MAX_ENTRIES entries, checkpoints/index.json never more than MAX_CHECKPOINTS
\* checkpoints, summaries/index.json never more than MAX_SUMMARIES summaries.
C20_CeilingsOnDisk ==
    /\ CountOn(files, "root", TRACKER_FILE, KEntries) <= cfg.MAX_ENTRIES
    /\ CountOn(files, CHECKPOINTS_DIR, INDEX_FILE, KCheckpoints) <= cfg.MAX_CHECKPOINTS
    /\ CountOn(files, SUMMARIES_DIR, INDEX_FILE, KSummaries) <= cfg.MAX_SUMMARIES

\* the checkpoints of checkpoints/index.json as it is on the disk d
IndexOn(d) ==
    LET p == Target(getFilePath(CHECKPOINTS_DIR, INDEX_FILE))
    IN IF p \in DOMAIN d /\ Parses(d[p]) THEN Get(Parse(d[p]), KCheckpoints).e ELSE <<>>
\* the disk d holds the data of checkpoint id
HasPayload(d, id) == Target(getFilePath(CHECKPOINTS_DIR, CheckpointFile(id))) \in DOMAIN d

\* C21: every checkpoint listed in checkpoints/index.json has its data
\* <id>.json on disk, in every state.
C21_IndexHasPayload ==
    \A k \in 1..Len(IndexOn(files)) : HasPayload(files, Get(IndexOn(files)[k], KId).n)

\* the ids of the checkpoints of the index on the disk d, in its order
IdsOn(d) == [k \in 1..Len(IndexOn(d)) |-> Get(IndexOn(d)[k], KId).n]
\* the ids of checkpoint 0 and of the n checkpoints saved since, in save order
SavedIds(n) == [k \in 1..(n + 1) |-> k - 1]
\* the last n items of s, all of them if there are fewer
MostRecent(s, n) == IF Len(s) > n THEN LastOf(s, n) ELSE s

\* C22: once checkpoint_save calls are over, the index holds the
\* MAX_CHECKPOINTS most recent checkpoints in save order (all of them if
\* there are fewer), the data of every checkpoint dropped is gone and the
\* data of every checkpoint retained is there; and the only data ever deleted
\* is that of a checkpoint being dropped by the save that runs.
C22_Pruning ==
    /\ [](ClientRuns /\ tools # <<>> =>
            LET kept == MostRecent(SavedIds(Len(tools)), cfg.MAX_CHECKPOINTS)
            IN /\ IdsOn(files) = kept
               /\ \A id \in 0..Len(tools) :
                     HasPayload(files, id) <=> \E k \in 1..Len(kept) : kept[k] = id)
    /\ [][\A id \in 0..Len(tools) :
            HasPayload(files, id) /\ ~HasPayload(files', id) =>
               \E h \in DOMAIN tools :
                  /\ tools[h].pc = "cp.prune"
                  /\ Get(Head(tools[h].rm), KId).n = id
                  /\ \A k \in 1..Len(Get(tools[h].doc, KCheckpoints).e) :
                        Get(Get(tools[h].doc, KCheckpoints).e[k], KId).n # id]_vars

\* two saves are over with MAX_CHECKPOINTS = 1: the index holds checkpoint 2
\* only, the data of checkpoints 0 and 1 is gone
C22_Witness ==
    /\ ClientRuns /\ Len(tools) = 2 /\ cfg.MAX_CHECKPOINTS = 1
    /\ IdsOn(files) = <<2>>
    /\ ~HasPayload(files, 0) /\ ~HasPayload(files, 1) /\ HasPayload(files, 2)

\* the summaries of summaries/index.json as it is on the disk d
SummariesOn(d) ==
    LET p == Target(getFilePath(SUMMARIES_DIR, INDEX_FILE))
    IN IF p \in DOMAIN d /\ Parses(d[p]) THEN Get(Parse(d[p]), KSummaries).e ELSE <<>>

\* C23: a context_summarize or context_merge_summaries that brings the
\* summaries it loaded to more than MAX_SUMMARIES writes exactly the
\* MAX_SUMMARIES most recent ones in insertion order, the one just created
\* last; otherwise it writes them all; and the index holds what was written
\* once the save is over.
C23_SummaryCap ==
    [][\A h \in DOMAIN tools :
          /\ (tools[h].pc \in {"sum.load", "merge.load"}
                /\ tools'[h].pc \in {"sum.save", "merge.save"}) =>
                LET created == Map(<<Member(KId, Num(tools[h].key))>>)
                    all == Append(Get(WithVersion(Awaited(h).v), KSummaries).e, created)
                    written == Get(ops'[Len(ops')].arg, KSummaries).e
                IN /\ ops'[Len(ops')].kind = "write"
                   /\ IF Len(all) > cfg.MAX_SUMMARIES
                      THEN Len(written) = cfg.MAX_SUMMARIES
                           /\ written = LastOf(all, cfg.MAX_SUMMARIES)
                      ELSE written = all
                   /\ written[Len(written)] = created
          /\ (tools[h].pc \in {"sum.save", "merge.save"} /\ tools'[h].pc = "done") =>
                SummariesOn(files') = Get(tools[h].doc, KSummaries).e]_vars

\* a context_merge_summaries found MAX_SUMMARIES summaries on disk and is
\* saving all but the oldest of them, followed by the merged one
C23_Witness ==
    \E h \in DOMAIN tools :
        /\ tools[h].name = "context_merge_summaries" /\ tools[h].pc = "merge.save"
        /\ Len(SummariesOn(files)) = cfg.MAX_SUMMARIES
        /\ Get(tools[h].doc, KSummaries).e =
              Append(Tail(SummariesOn(files)), Map(<<Member(KId, Num(tools[h].key))>>))

\* C24: the memories that session_init gets from getMemoryList() are the
\* list that memory_list returns of the same memory.json at the same time:
\* the entries not expired under now > updatedAt + ttl.
C24_SessionMemories ==
    [][\A h \in DOMAIN tools : \A i \in tools[h].pend :
          (tools[h].pc = "init.all" /\ i \notin tools'[h].pend /\ ops[i].fname = MEMORY_FILE)
             => tools'[h].memories = MemoryList(WithVersion(ops[i].res.v), now)]_vars

\* the entry is expired at clock under the rule: it has a ttl and
\* clock > updatedAt + ttl
ExpiredByRule(entry, clock) ==
    /\ Get(entry, KTtl).t = "num"
    /\ clock > GetTime(Get(entry, KUpdatedAt)) + Get(entry, KTtl).n
\* the store without the entries expired under the rule
KeptByRule(memStore, clock) ==
    Set(memStore, KEntries,
        Map(SelectSeq(Get(memStore, KEntries).e, LAMBDA m : ~ExpiredByRule(m.e[1], clock))))
\* the store that the sweep of handler h loaded: the result of its read, the
\* operation it awaits or the one before its write
SweepLoaded(h) ==
    WithVersion(ops[IF ops[tools[h].op].kind = "read"
                    THEN tools[h].op ELSE tools[h].op - 1].res.v)
\* the step ends the sweep of handler h: cleanupExpiredMemories() returns
SweepEnds(h) ==
    \/ tools[h].pc \in {"sweep.load", "sweep.save"} /\ tools'[h].pc = "done"
    \/ tools[h].pc \in {"init.clean", "init.cleansave"} /\ tools'[h].pc = "init.all"

\* C25: when the sweep of memory_cleanup or session_init ends, memory.json
\* holds exactly the entries that were not expired, the count returned is the
\* number of entries removed, and with no expired entry nothing was written.
C25_Sweep ==
    [][\A h \in DOMAIN tools :
          SweepEnds(h) =>
             LET before == SweepLoaded(h)
                 kept == KeptByRule(before, now)
                 count == IF tools[h].name = "memory_cleanup"
                          THEN tools'[h].out.v.n ELSE tools'[h].removed
             IN /\ Get(MemoryOn(files'), KEntries) = Get(kept, KEntries)
                /\ count = Count(before) - Count(kept)
                /\ Count(kept) = Count(before) =>
                      ops[tools[h].op].kind = "read" /\ files' = files]_vars

\* the checkpoint_save calls that are over
Saves == {h \in DOMAIN tools : tools[h].name = "checkpoint_save" /\ tools[h].pc = "done"}
\* the last of them
LastSave == CHOOSE h \in Saves : \A g \in Saves : g <= h
\* the data of checkpoint id as it is on the disk d
PayloadOn(d, id) == Parse(d[Target(getFilePath(CHECKPOINTS_DIR, CheckpointFile(id)))])

\* C26: once a checkpoint_save is over, its checkpoint is the last entry of
\* the index, stored with an empty state, and its data file holds the state
\* that was saved; a checkpoint_load without arguments that follows returns
\* that checkpoint with that state.
C26_SaveThenLoad ==
    /\ [](ClientRuns /\ Saves # {} =>
            /\ IndexOn(files) # <<>>
            /\ IndexOn(files)[Len(IndexOn(files))] =
                  Map(<<Member(KId, Num(tools[LastSave].key)), Member(KState, Map(<<>>))>>)
            /\ HasPayload(files, tools[LastSave].key)
            /\ PayloadOn(files, tools[LastSave].key) = tools[LastSave].val)
    /\ [][\A h \in DOMAIN tools :
            (tools[h].name = "checkpoint_load" /\ ~ToolEnded(h) /\ tools'[h].pc # tools[h].pc
               /\ ToolEnded(h)' /\ Saves # {}) =>
                  /\ tools'[h].pc = "done"
                  /\ tools'[h].out =
                        Reply("loaded", Map(<<Member(KId, Num(tools[LastSave].key)),
                                              Member(KState, tools[LastSave].val)>>))]_vars

\* a checkpoint_load has returned the checkpoint of the save before it, the
\* index holding an older checkpoint too
C26_Witness ==
    \E h \in DOMAIN tools :
        /\ tools[h].name = "checkpoint_load" /\ tools[h].pc = "done"
        /\ h > 1 /\ tools[h - 1].name = "checkpoint_save"
        /\ Len(IndexOn(files)) = 2
        /\ tools[h].out.st = "loaded"
        /\ Get(tools[h].out.v, KState) = tools[h - 1].val

\* operation i nests a second acquisition of its path in its lock scope
Nests(i) == ops[i].kind = "nested" /\ ops[i].pc = "awaitInner"

\* C27: once an operation that holds the lock on p acquires p again from
\* inside its scope, neither the inner nor the outer acquisition ever
\* completes, and no operation called later on p ever completes either.
C27_NoReentrancy ==
    \A i \in Ids :
        (ops[i].kind = "nested" /\ ops[i].inner # 0) =>
            /\ Live(i)
            /\ ops[ops[i].inner].pc = "wait"
            /\ \A j \in Ids : (j > i /\ SamePath(i, j)) => ops[j].pc \in {"wait", "new"}

\* a nested acquisition waits in the scope that holds the lock, a read and a
\* write called after it wait too, and nothing is left to run
C27_Witness ==
    \E i, j, k \in Ids :
        /\ Nests(i) /\ j > i /\ k > i
        /\ ops[j].kind = "read" /\ ops[j].pc = "wait" /\ j # ops[i].inner
        /\ ops[k].kind = "write" /\ ops[k].pc = "wait"
        /\ microtasks = <<>>
        /\ \A n \in Ids : ops[n].pc \in {"wait", "awaitInner", "done", "failed"}

C29_StuckHolder ==
    /\ [](\A h \in Ids : Hung(h) =>
            \A j \in Ids : (j > h /\ OnP(j)) => (Waiting(j) /\ ops[j].res = NoRes))
    /\ \A i \in 1..MaxHangOps :
           (i \in Ids /\ ~OnP(i)) ~> (i \in Ids /\ Ended(i))

\* the holder of p hangs, a later operation on p waits and an operation
\* called on the other path after both is over
C29_Witness ==
    \E h, j, k \in Ids :
        /\ h < j /\ j < k
        /\ Hung(h) /\ OnP(j) /\ Waiting(j)
        /\ ~OnP(k) /\ Ended(k)

\* the step in which a write or an append returns to its caller
Completes(i) == Writing(i) /\ ops[i].pc # "done" /\ ops'[i].pc = "done"

\* C30 (as claimed): when a write or an append completes with backups
\* enabled, the file has at most maxBackups backups, and every backup kept
\* carries a later timestamp than every backup the operation removed.
C30_BackupCap ==
    [][\A i \in Ids :
          (Completes(i) /\ enableBackup) =>
             LET kept == BackupsOf(files', ops[i].path)
                 own == BackupPath(ops[i].path, ops[i].ts)
                 gone == (ops[i].pre.baks \ {own}) \ kept
             IN /\ Cardinality(kept) <= DefaultMaxBackups
                /\ \A a \in kept, b \in gone : a.ts > b.ts]_vars


\* the key under which the lock of operation i is kept
KeyOf(i) == LockKey(ops[i].store, ops[i].fname)

\* C39: the lock table has an entry for a path exactly while an operation is
\* inside its critical section on it, and the entry is that operation's: no
\* entry outlives its owner, no operation is in its critical section without
\* its entry, and with nothing running the table is empty.
C39_LockTable ==
    /\ \A k \in DOMAIN fileLocks :
          /\ fileLocks[k] \in Ids
          /\ InCS(fileLocks[k])
          /\ KeyOf(fileLocks[k]) = k
    /\ \A i \in Ids : InCS(i) => (Has(fileLocks, KeyOf(i)) /\ fileLocks[KeyOf(i)] = i)
    /\ (\A i \in Ids : Ended(i)) => fileLocks = <<>>

\* an operation has released the path, the waiter that followed it holds the
\* entry now, and a third operation waits for that one
C39_Witness ==
    \E i, j, k \in Ids :
        /\ i < j /\ j < k
        /\ Ended(i) /\ InCS(j) /\ fileLocks[KeyOf(j)] = j
        /\ k \in Range(ops[j].waitq)


\* the temp files on a disk
TempFiles(d) == {n \in DOMAIN d : n.ext = "tmp"}

\* C40 (as claimed): with no write or append in flight and no crash so far,
\* the store holds no temp file.
C40_NoTempLeft ==
    (crashes = 0 /\ \A i \in Ids : Writing(i) => Ended(i)) => TempFiles(files) = {}


\* the smaller of two numbers
Min(a, b) == IF a < b THEN a ELSE b

\* C31 (as claimed): a write removes backups of its own file only, and leaves
\* its file with the backups it had and the new one, up to maxBackups of
\* them, whatever backups other files of the directory have.
C31_OwnBackupsOnly ==
    [][\A i \in Ids :
          /\ InCS(i) =>
                \A n \in DOMAIN files :
                   (n.ext = "bak" /\ ~Has(files', n)) => n.path = ops[i].path
          /\ (Completes(i) /\ ops[i].pre.has) =>
                Cardinality(BackupsOf(files', ops[i].path)) =
                   Min(DefaultMaxBackups,
                       Cardinality(ops[i].pre.baks
                                      \cup {BackupPath(ops[i].path, ops[i].ts)}))]_vars


\* C32 (as claimed): once concurrent tracker_log calls have all answered,
\* tracker.json holds the entry of each of them.
C32_NoLostUpdate ==
    (\A h \in DOMAIN tools : tools[h].pc = "done") =>
        \A h \in DOMAIN tools : tools[h].val \in Range(TrackerEntriesOn(files))


\* the entries of memory.json as it is on the disk d
MemoryEntriesOn(d) == Get(Parse(d[Target(getFilePath("root", MEMORY_FILE))]), KEntries)

\* C33 (as claimed): once a memory_set(k, v) and the memory_get(k) calls
\* around it have all answered, memory.json holds k with value v, the entry
\* that the next memory_get(k) reads.
C33_GetKeepsFresh ==
    \A s \in DOMAIN tools :
       (/\ tools[s].name = "memory_set" /\ tools[s].pc = "done"
        /\ \A h \in DOMAIN tools : tools[h].pc = "done") =>
          /\ ~Falsy(Get(MemoryEntriesOn(files), tools[s].key))
          /\ Get(Get(MemoryEntriesOn(files), tools[s].key), KValue) = tools[s].val


\* no entry of memStore that is expired under the rule is in the list
NoExpiredIn(list, memStore) ==
    \A e \in Range(Values(Get(memStore, KEntries))) :
       ExpiredByRule(e, now) => Listed(e) \notin Range(list.e)

\* C34 (as claimed): the list that memory_list returns and the memory list of
\* session_init never include an entry for which now > updatedAt + ttl,
\* swept from disk or not.
C34_NoExpiredReported ==
    [][\A h \in DOMAIN tools :
          /\ (tools[h].pc = "list.load" /\ tools'[h].pc = "done") =>
                NoExpiredIn(tools'[h].out.v, WithVersion(Awaited(h).v))
          /\ \A i \in tools[h].pend :
                (/\ tools[h].pc = "init.all" /\ i \notin tools'[h].pend
                 /\ ops[i].fname = MEMORY_FILE /\ ops[i].pc = "done") =>
                   NoExpiredIn(tools'[h].memories, ops[i].res.v)]_vars


\* C35 (as claimed): a tracker_cleanup with keepCount k that is no dry run,
\* on a tracker of n > k entries, saves exactly the k most recent entries in
\* order and reports n - k removed, k being the number of entries left in
\* tracker.json once the save is over; with n <= k it writes nothing.
C35_CleanupKeeps ==
    [][\A h \in DOMAIN tools :
          /\ (/\ tools[h].pc = "clean.load"
              /\ tools'[h].pc # "clean.load"
              /\ ~tools[h].dry) =>
                LET e == Get(LoadedTracker(h), KEntries).e
                    k == tools[h].keep
                IN IF Len(e) > k
                   THEN /\ tools'[h].pc = "clean.save"
                        /\ Get(tools'[h].doc, KEntries).e = LastOf(e, k)
                        /\ tools'[h].out = Reply("cleaned", Num(Len(e) - k))
                   ELSE /\ tools'[h].pc = "done"
                        /\ Len(ops') = Len(ops)
          /\ (tools[h].pc = "clean.save" /\ tools'[h].pc = "done") =>
                Len(TrackerEntriesOn(files')) = tools[h].keep]_vars


\* the entries that a tracker_cleanup with keepCount k removes from the
\* loaded tracker: those that are not in the document it saves
CleanupRemoves(trackerStore, k) ==
    LET e == Get(trackerStore, KEntries).e
        saved == Get(Rotated(Set(trackerStore, KEntries, List(Slice(e, 0 - k)))), KEntries).e
    IN IF Len(e) <= k THEN <<>> ELSE SubSeq(e, 1, Len(e) - Len(saved))
\* the keys that a memory_clear with these tags removes from the loaded store
ClearRemoves(memStore, tags) ==
    LET before == Get(memStore, KEntries).e
        after == Get(Cleared(memStore, ToDelete(memStore, tags)), KEntries)
        gone == SelectSeq(before, LAMBDA m : ~HasKey(after, m.n))
    IN [j \in 1..Len(gone) |-> Str(gone[j].n)]

\* C36 (as claimed): while the only call in progress is a dry run of
\* tracker_cleanup or memory_clear no file and no backup changes, and the dry
\* run reports exactly the entries, or the keys, that the same call without
\* dryRun removes from the store it loaded.
C36_DryRunPreview ==
    [][/\ (\A h \in DOMAIN tools : ToolEnded(h) \/ tools[h].dry) => files' = files
       /\ \A h \in DOMAIN tools :
            /\ (/\ tools[h].pc = "clean.load" /\ tools[h].dry
                /\ tools'[h].pc = "done" /\ tools'[h].out.st = "dry run") =>
                  tools'[h].out.v = List(CleanupRemoves(LoadedTracker(h), tools[h].keep))
            /\ (/\ tools[h].pc = "clear.load" /\ tools[h].dry
                /\ tools'[h].pc = "done") =>
                  tools'[h].out = Reply("dry run",
                                        List(ClearRemoves(WithVersion(Awaited(h).v),
                                                          tools[h].val)))]_vars


\* the four versioned documents of the data directory
VersionedFiles ==
    {getFilePath("root", TRACKER_FILE), getFilePath("root", MEMORY_FILE),
     getFilePath(CHECKPOINTS_DIR, INDEX_FILE), getFilePath(SUMMARIES_DIR, INDEX_FILE)}

\* C37 (as claimed): every tracker.json, memory.json, checkpoints/index.json
\* and summaries/index.json on disk carries a version field that is a number.
C37_VersionField ==
    \A p \in VersionedFiles :
       Target(p) \in DOMAIN files => Get(Parse(files[Target(p)]), KVersion).t = "num"


\* C38 (as claimed): a tracker operation whose read of tracker.json throws
\* goes on with an empty tracker: tracker_cleanup finds nothing to clean, and
\* tracker_log saves a document whose only entry is the new one, succeeds,
\* and, with backups enabled, leaves the content it replaced in a backup file.
C38_CorruptTracker ==
    [][\A h \in DOMAIN tools :
          /\ (tools[h].pc = "log.load" /\ tools'[h].pc # "log.load" /\ Threw(h)) =>
                /\ tools'[h].pc = "log.save"
                /\ Get(tools'[h].doc, KEntries).e = <<tools[h].val>>
          /\ (tools[h].pc = "clean.load" /\ tools'[h].pc # "clean.load" /\ Threw(h)) =>
                tools'[h].pc = "done"
          /\ (tools[h].pc = "log.save" /\ tools'[h].pc # "log.save") =>
                tools'[h].pc = "done"
          /\ LET i == tools[h].op IN
             (/\ tools[h].pc = "log.save" /\ Live(i) /\ ops'[i].pc \in {"done", "failed"}
              /\ ops[i].pre.has /\ ~Parses(ops[i].pre.c)) =>
                /\ ops'[i].pc = "done"
                /\ TrackerEntriesOn(files') = <<tools[h].val>>
                /\ enableBackup =>
                     \E b \in BackupsOf(files', ops[i].path) : files'[b] = ops[i].pre.c]_vars

====
